---------------------------- MODULE Spec2Model ----------------------------
(***************************************************************************)
(* FTRepo: the version comparators (scraper.py, clean_duplicates.py), the  *)
(* catalog builder update_repo_json with upload_to_release, the channel    *)
(* scan scrape_channel_or_topic, the catalog step and the release-asset    *)
(* duplicate check of clean_duplicates.py, convert_to_altstore.py, the     *)
(* inference call extract_metadata_with_ai with its fallback model, and    *)
(* the reconciliation of one file in update_repo_json.                     *)
(*                                                                         *)
(* Strings whose characters the code looks at (version strings) are        *)
(* sequences of one-character strings.  File names and display names are   *)
(* sequences of atoms (words and separators).  Python's None is the empty  *)
(* sequence where a value is optional.                                     *)
(***************************************************************************)
EXTENDS Integers, Sequences, FiniteSets, TLC

VARIABLES
    downloads,          \* DOWNLOAD_DIR: the observations (downloaded files with their metadata)
    storage,            \* the release's assets: a set of file names
    apps_json,          \* REPO_FILE: the published apps array
    appstore_cache,     \* _appstore_cache, kept in appstore_cache.json between runs
    pc,                 \* update_repo_json: "idle", "scan", "merge", "build", "write", "done"
    ipa_files,          \* update_repo_json: the listing of DOWNLOAD_DIR taken at the start
    todo,               \* update_repo_json: the files of the listing not yet processed
    apps_by_bundle,     \* update_repo_json: the keyed map, in insertion order
    existing_apps,      \* update_repo_json: the apps array loaded in the merge pass
    current_release_assets, \* update_repo_json: the storage listing taken before the build loop
    build_idx,          \* update_repo_json: position of the build loop in apps_by_bundle
    final_apps,         \* update_repo_json: the app list being built
    now,                \* the clock (datetime.now()), one tick per run
    n_obs,              \* number of files downloaded so far
    n_drift,            \* number of assets removed from the release outside update_repo_json
    cv_v1, cv_v2,       \* compare_versions: the two version strings
    cv_t1, cv_t2,       \* compare_versions: the optional timestamps (<<>> is None)
    cv_out,             \* <<>> before the call, then <<scraper result, cleaner result>>
    cv_raised,          \* <<>> before the call, then for each comparator: an exception left it
    release_assets,     \* clean_duplicates: the names of the release's .ipa assets
    known_tweaks,       \* clean_duplicates: the list load_tweaks_list returned
    ai_response,        \* check_all_release_assets_with_ai: what the model answered
    duplicate_groups,   \* check_all_release_assets_with_ai: the list it returned
    deleted_assets,     \* clean_duplicates: the assets the release-asset step deleted
    cpc,                \* clean_duplicates: "scan", "groups", "finished"
    sc_messages,        \* scrape_channel_or_topic: the messages client.iter_messages yields
    sc_disk,            \* scrape_channel_or_topic: the file names present in DOWNLOAD_DIR
    sc_release_assets,  \* scrape_channel_or_topic: its release_assets argument
    existing_apps_dict, \* scrape_channel_or_topic: key -> version of the published catalog
    messages_scanned,   \* scrape_channel_or_topic: messages the first pass has taken
    ipa_count,          \* scrape_channel_or_topic: .ipa documents seen
    download_queue,     \* scrape_channel_or_topic: the file names queued for download
    sc_started,         \* scrape_channel_or_topic: entries of the queue whose download was started
    sc_batch,           \* scrape_channel_or_topic: the queue positions of the batch being awaited
    sc_in_flight,       \* the queue positions whose download_single_file has not finished
    sc_ok,              \* the positions of the batch whose result is True
    sc_failed,          \* the positions of the batch whose result is False or an exception
    downloaded_files,   \* scrape_channel_or_topic: the file names appended to downloaded_files
    sc_no_meta,         \* positions of the messages for which extract_metadata_with_ai returned None
    sc_pc,              \* scrape_channel_or_topic: "scan", "download", "returned"
    cat_apps,           \* clean_duplicates: the apps array loaded from REPO_FILE
    cat_json,           \* clean_duplicates: the apps array REPO_FILE holds
    cat_known_tweaks,   \* clean_duplicates: known_tweaks, as loaded
    cat_release_assets, \* clean_duplicates: the names get_release_assets returned
    cat_deleted,        \* clean_duplicates: the assets deleted by the catalog step
    cat_pc,             \* clean_duplicates: "load", "cleaned"
    apps_data,          \* convert_to_altstore: the apps array of its input
    tweaks_data,        \* convert_to_altstore: the tweaks of tweaks_list.json
    altstore_apps,      \* convert_to_altstore: the apps converted so far
    ex_fallback_model,  \* OPENROUTER_FALLBACK_MODEL
    ex_cache,           \* _ai_bundle_cache at the key of the message: None or the cached metadata
    ex_pc,              \* extract_metadata_with_ai: "idle", "primary", "check", "log", "returned"
    ex_calls,           \* the model names _extract_with_model was called with in this extraction
    ex_primary,         \* what the primary model returned
    fallback_metadata,  \* what the fallback model returned
    metadata,           \* extract_metadata_with_ai: its local metadata, the value returned
    ex_n,               \* extractions started
    rc_info,            \* update_repo_json: info as extract_ipa_info returned it
    rc_ai,              \* the fields of ai_metadata
    rc_version_from_file,\* version_from_file of parse_filename
    rc_source_channel,  \* source_channel of the file
    rc_store,           \* what search_app_store finds, by name
    rc_out,             \* info after reconciliation
    rc_pc               \* position in the iteration

cmpVars == <<cv_v1, cv_v2, cv_t1, cv_t2, cv_out, cv_raised>>

repoVars == <<downloads, storage, apps_json, appstore_cache, pc, ipa_files, todo,
              apps_by_bundle, existing_apps, current_release_assets, build_idx,
              final_apps, now, n_obs, n_drift>>

cleanVars == <<release_assets, known_tweaks, ai_response, duplicate_groups,
               deleted_assets, cpc>>

scanVars == <<sc_messages, sc_disk, sc_release_assets, existing_apps_dict,
              messages_scanned, ipa_count, download_queue, sc_started,
              sc_batch, sc_in_flight, sc_ok, sc_failed,
              downloaded_files, sc_no_meta, sc_pc>>

catVars == <<cat_apps, cat_json, cat_known_tweaks, cat_release_assets, cat_deleted, cat_pc>>

convVars == <<apps_data, tweaks_data, altstore_apps>>

extVars == <<ex_fallback_model, ex_cache, ex_pc, ex_calls, ex_primary, fallback_metadata, metadata, ex_n>>

rcVars == <<rc_info, rc_ai, rc_version_from_file, rc_source_channel, rc_store, rc_out, rc_pc>>

vars == <<cmpVars, repoVars, cleanVars, scanVars, catVars, convVars, extVars, rcVars>>

\* What each operation leaves alone: the state of the other programs.
notCmpVars   == <<repoVars, cleanVars, scanVars, catVars, convVars, extVars, rcVars>>
notRepoVars  == <<cmpVars, cleanVars, scanVars, catVars, convVars, extVars, rcVars>>
notCleanVars == <<cmpVars, repoVars, scanVars, catVars, convVars, extVars, rcVars>>
notScanVars  == <<cmpVars, repoVars, cleanVars, catVars, convVars, extVars, rcVars>>
notCatVars   == <<cmpVars, repoVars, cleanVars, scanVars, convVars, extVars, rcVars>>
notConvVars  == <<cmpVars, repoVars, cleanVars, scanVars, catVars, extVars, rcVars>>
notExtVars == <<cmpVars, repoVars, cleanVars, scanVars, catVars, convVars, rcVars>>
notRcVars == <<cmpVars, repoVars, cleanVars, scanVars, catVars, convVars, extVars>>

-----------------------------------------------------------------------------
(* Bounds *)

MaxVerLen == 3          \* version strings of the exhaustive domain: at most this many characters
MaxObs    == 2          \* files downloaded in one behaviour
MaxRuns   == 2          \* runs of update_repo_json in one behaviour
MaxDrift  == 1          \* assets removed from the release by something else than update_repo_json
MaxMsgs   == 4          \* messages of the scanned channel
MaxApps   == 3          \* entries of the catalog clean_duplicates loads
MaxExtractions == 2     \* extractions of one message's metadata

-----------------------------------------------------------------------------
(* Characters *)

Digits == {"0", "1", "2", "3", "4", "5", "6", "7", "8", "9"}

DigitVal(c) ==
    CASE c = "0" -> 0 [] c = "1" -> 1 [] c = "2" -> 2 [] c = "3" -> 3
      [] c = "4" -> 4 [] c = "5" -> 5 [] c = "6" -> 6 [] c = "7" -> 7
      [] c = "8" -> 8 [] c = "9" -> 9

\* Code point order of the characters used, for Python's str comparison.
Ord(c) ==
    CASE c = " " -> 32 [] c = "-" -> 45 [] c = "." -> 46
      [] c \in Digits -> 48 + DigitVal(c)
      [] c = "a" -> 97 [] c = "b" -> 98 [] c = "c" -> 99 [] c = "d" -> 100
      [] c = "e" -> 101 [] c = "r" -> 114 [] c = "t" -> 116
      [] c = "N" -> 78 [] c = "n" -> 110 [] c = "o" -> 111

\* str.isdigit(): non-empty and every character a digit.
IsDigit(tok) == Len(tok) > 0 /\ \A i \in 1..Len(tok) : tok[i] \in Digits

RECURSIVE IntOf(_)
\* int(tok) for an all-digit token.
IntOf(tok) ==
    IF Len(tok) = 0 THEN 0
    ELSE 10 * IntOf(SubSeq(tok, 1, Len(tok) - 1)) + DigitVal(tok[Len(tok)])

RECURSIVE SplitOn(_, _)
\* re.split(r'[...]', s): the tokens between separator characters, empty ones included.
SplitOn(s, seps) ==
    IF \A i \in 1..Len(s) : s[i] \notin seps THEN <<s>>
    ELSE LET k == CHOOSE i \in 1..Len(s) :
                      s[i] \in seps /\ \A j \in 1..(i - 1) : s[j] \notin seps
         IN  <<SubSeq(s, 1, k - 1)>> \o SplitOn(SubSeq(s, k + 1, Len(s)), seps)

\* s.split(): the whitespace-separated words of s.
Words(s) == SelectSeq(SplitOn(s, {" "}), LAMBDA w : Len(w) > 0)

RECURSIVE MapInt(_)
MapInt(toks) ==
    IF Len(toks) = 0 THEN <<>> ELSE <<IntOf(Head(toks))>> \o MapInt(Tail(toks))

\* [int(x) for x in re.split(r'[.-]', s) if x.isdigit()]
NumericParts(s) == MapInt(SelectSeq(SplitOn(s, {".", "-"}), IsDigit))

\* A variant of PadTo that leaves the list as it is.
NoPad(parts, n) == parts

\* parts.extend([0] * (n - len(parts)))
PadTo(parts, n) == parts \o [i \in 1..(n - Len(parts)) |-> 0]

Max(a, b) == IF a >= b THEN a ELSE b

RECURSIVE ListGreater(_, _)
\* Python's a > b on two lists of integers.
ListGreater(a, b) ==
    IF Len(a) = 0 THEN FALSE
    ELSE IF Len(b) = 0 THEN TRUE
    ELSE IF Head(a) # Head(b) THEN Head(a) > Head(b)
    ELSE ListGreater(Tail(a), Tail(b))

RECURSIVE StrGreater(_, _)
\* Python's a > b on two strings.
StrGreater(a, b) ==
    IF Len(a) = 0 THEN FALSE
    ELSE IF Len(b) = 0 THEN TRUE
    ELSE IF Head(a) # Head(b) THEN Ord(Head(a)) > Ord(Head(b))
    ELSE StrGreater(Tail(a), Tail(b))

\* Values that are not strings: None and the integer 10.
PyNone == <<"None">>
PyInt10 == <<"int 10">>

NonStrings == {PyNone, PyInt10}

IsStr(v) == v \notin NonStrings

\* str(v)
Str(v) ==
    CASE v = PyNone  -> <<"N", "o", "n", "e">>
      [] v = PyInt10 -> <<"1", "0">>
      [] OTHER       -> v

\* timestamp1 is not None and timestamp2 is not None, then timestamp1 > timestamp2
TimestampNewer(t1, t2) == Len(t1) > 0 /\ Len(t2) > 0 /\ t1[1] > t2[1]

-----------------------------------------------------------------------------
(* scraper.py compare_versions *)

\* A variant that compares the padded tuples with >= instead of >.
TupleNewerOrEqual(p1, p2, t1, t2) == p1 = p2 \/ ListGreater(p1, p2)

\* Lines 1372-1378: equal tuples fall to the timestamps, else tuple order.
TupleNewer(p1, p2, t1, t2) ==
    IF p1 = p2 THEN TimestampNewer(t1, t2) ELSE ListGreater(p1, p2)

\* Lines 1379-1385: the except branch.
StringFallback(v1, v2, t1, t2) ==
    IF Str(v1) = Str(v2) THEN TimestampNewer(t1, t2) ELSE StrGreater(Str(v1), Str(v2))

\* A variant of Raises in which a version without numeric token is a parse failure.
RaisesOnGarbage(v1, v2) ==
    \/ ~IsStr(v1) \/ ~IsStr(v2)
    \/ Len(Words(v1)) = 0 \/ Len(Words(v2)) = 0
    \/ NumericParts(Words(v1)[1]) = <<>> \/ NumericParts(Words(v2)[1]) = <<>>

\* The try block raises: v.split raises AttributeError when v is not a string,
\* v.split()[0] raises IndexError when v has no word.
Raises(v1, v2) ==
    \/ ~IsStr(v1) \/ ~IsStr(v2)
    \/ Len(Words(v1)) = 0 \/ Len(Words(v2)) = 0

\* A function without the except clause: what the try block raises leaves it.
EscapesUncaught(raised) == raised

\* Lines 1379 and 395: the bare except catches whatever the try block raised,
\* and the branch raises nothing itself (str() of a value, > on two strings or
\* on two numbers).
Escapes(raised) == FALSE

compare_versions(v1, v2, t1, t2) ==
    IF Raises(v1, v2) THEN StringFallback(v1, v2, t1, t2)
    ELSE LET p1 == NumericParts(Words(v1)[1])
             p2 == NumericParts(Words(v2)[1])
             n  == Max(Len(p1), Len(p2))
         IN  TupleNewer(PadTo(p1, n), PadTo(p2, n), t1, t2)

(* clean_duplicates.py compare_versions: no timestamps, no split()[0]; str(v) *)
(* cannot raise, so the except branch is never taken.                        *)
cleaner_compare_versions(v1, v2) ==
    LET p1 == NumericParts(Str(v1))
        p2 == NumericParts(Str(v2))
        n  == Max(Len(p1), Len(p2))
    IN  ListGreater(PadTo(p1, n), PadTo(p2, n))

-----------------------------------------------------------------------------
(* Inputs of the comparator specification *)

Alphabet == {"1", "2", ".", "a"}

RECURSIVE StringsUpTo(_)
StringsUpTo(n) ==
    IF n = 0 THEN {<<>>}
    ELSE LET S == StringsUpTo(n - 1)
         IN  S \cup {Append(s, c) : s \in {x \in S : Len(x) = n - 1}, c \in Alphabet}

\* The version strings the specification names.
V_2_21   == <<"2", ".", "2", "1">>
V_2_2    == <<"2", ".", "2">>
V_404    == <<"4", "0", "4", ".", "0", ".", "0">>
V_405    == <<"4", "0", "5", ".", "1", ".", "0">>
V_1_0    == <<"1", ".", "0">>
V_1_0_0  == <<"1", ".", "0", ".", "0">>
V_1_2    == <<"1", ".", "2">>
V_abc    == <<"a", "b", "c">>
V_abd    == <<"a", "b", "d">>
V_1_2b   == <<"1", ".", "2", " ", "b">>
V_1d2    == <<"1", "-", "2">>
V_blank  == <<" ">>
V_2_0_beta == <<"2", ".", "0", "-", "b", "e", "t", "a">>
V_2_0_rc   == <<"2", ".", "0", "-", "r", "c">>

NamedVersions ==
    {V_2_21, V_2_2, V_404, V_405, V_1_0, V_1_0_0, V_1_2, V_abc, V_abd, V_1_2b, V_1d2, V_blank,
     V_2_0_beta, V_2_0_rc}

VersionStrings == StringsUpTo(MaxVerLen) \cup NamedVersions

\* The arguments v1 and v2 can be given.
VersionValues == VersionStrings \cup NonStrings

Timestamps == {<<>>, <<1>>, <<2>>}

CmpInit ==
    /\ cv_v1 \in VersionValues
    /\ cv_v2 \in VersionValues
    /\ cv_t1 = <<>>
    /\ cv_t2 = <<>>
    /\ cv_out = <<>>
    /\ cv_raised = <<>>

\* One call of each comparator on the same pair, the scraper's with the timestamps given.
Compare ==
    /\ cv_out = <<>>
    /\ \E t1 \in Timestamps, t2 \in Timestamps :
          /\ cv_t1' = t1
          /\ cv_t2' = t2
          /\ cv_out' = <<compare_versions(cv_v1, cv_v2, t1, t2),
                         cleaner_compare_versions(cv_v1, cv_v2)>>
    /\ cv_raised' = <<Escapes(Raises(cv_v1, cv_v2)), Escapes(FALSE)>>
    /\ UNCHANGED <<cv_v1, cv_v2>>
    /\ UNCHANGED notCmpVars



-----------------------------------------------------------------------------
(* update_repo_json: names, keys and entries *)

RELEASE_TAG == "latest"

\* tweaks_list.json, in file order.
KnownTweaks == <<"BHInsta", "Theta">>

\* str.lower() on the words used.
Lower(w) ==
    CASE w = "BHInsta" -> "bhinsta"
      [] w = "Theta"   -> "theta"
      [] w = "Fluffy"  -> "fluffy"
      [] w = "App"     -> "app"
      [] w = "Unk"     -> "unk"
      [] OTHER         -> w

\* .lower() on an optional name.
LowerAll(tweak) == [i \in 1..Len(tweak) |-> Lower(tweak[i])]

\* is_tweak_in_list (clean_duplicates.py): case-insensitive membership.
is_tweak_in_list(tweak_name, tweaks) ==
    \E i \in 1..Len(tweaks) : Lower(tweaks[i]) = Lower(tweak_name)

Bundles == {"com.x.app", "com.unknown.app"}

\* tweak_name as the inference collaborator may return it: None, a registered
\* name, a registered name in another letter case, an unregistered name.
TweakAnswers == {<<>>, <<"BHInsta">>, <<"bhinsta">>, <<"Theta">>, <<"Fluffy">>}

RepoVersions == {V_404, V_405}

MessageTimestamps == {1, 2}

\* One downloaded file after reconciliation (lines 1423-1669): info['bundleIdentifier'],
\* best_tweak, info['version'] and the message timestamp of source_tracking.
\* The untweaked apps are observed at both versions, com.x.app also in two
\* messages of one version; a tweaked app is observed once, at 404.0.0 and
\* timestamp 1, and only com.x.app is tweaked.
Observations ==
    {o \in [bundle : Bundles, tweak : TweakAnswers,
            version : RepoVersions, timestamp : MessageTimestamps] :
        /\ Len(o.tweak) > 0 => (o.bundle = "com.x.app" /\ o.version = V_404)
        /\ o.timestamp = 2 => (o.bundle = "com.x.app" /\ Len(o.tweak) = 0 /\ o.version = V_404)}

\* The name of the file an observation was downloaded to: distinct files of one
\* directory have distinct names.
FileName(o) ==
    <<IF o.bundle = "com.x.app" THEN "App" ELSE "Unk">>
      \o (IF Len(o.tweak) > 0 THEN <<" ">> \o o.tweak ELSE <<>>)
      \o <<" ", IF o.version = V_404 THEN "v404.0.0" ELSE "v405.1.0">>
      \o <<" ", IF o.timestamp = 1 THEN "m1" ELSE "m2">>
      \o <<".ipa">>

\* info['name'] of every observation, and the App Store's name for it.
AppName == <<"App">>

\* urllib.parse.quote on the atoms of a file name: a space becomes %20, letters,
\* digits and '.' stay.
Quote(name) == [i \in 1..Len(name) |-> IF name[i] = " " THEN "%20" ELSE name[i]]

\* urllib.parse.unquote.
Unquote(name) == [i \in 1..Len(name) |-> IF name[i] = "%20" THEN " " ELSE name[i]]

\* f"{repo_url}/releases/download/{RELEASE_TAG}/{encoded_filename}" (line 1864)
DownloadURL(filename) ==
    <<"repo_url", "/", "releases", "/", "download", "/", RELEASE_TAG, "/">> \o Quote(filename)

\* download_url.split('/')[-1], then unquote (lines 1836-1838)
FilenameFromURL(url) ==
    LET slashes == {i \in 1..Len(url) : url[i] = "/"}
        last == IF slashes = {} THEN 0 ELSE CHOOSE i \in slashes : \A j \in slashes : j <= i
    IN  Unquote(SubSeq(url, last + 1, Len(url)))

\* f"{base_name} ({tweak_name})" or base_name (lines 1911-1916)
FinalName(base_name, tweak) ==
    IF Len(tweak) > 0 THEN base_name \o <<" ", "(">> \o tweak \o <<")">> ELSE base_name

\* re.search(r'\(([^)]+)\)$', app_name): the text between the leftmost '(' that is
\* followed by no ')' before the last character and the ')' ending the name; <<>>
\* when there is no match (lines 1771-1774).
TweakInName(app_name) ==
    LET n == Len(app_name)
        opens == {i \in 1..n : /\ app_name[i] = "("
                               /\ i + 1 <= n - 1
                               /\ \A j \in (i + 1)..(n - 1) : app_name[j] # ")"}
    IN  IF n = 0 \/ app_name[n] # ")" \/ opens = {} THEN <<>>
        ELSE LET i == CHOOSE k \in opens : \A j \in opens : k <= j
             IN  SubSeq(app_name, i + 1, n - 1)

\* A variant of UniqueKey that lower-cases the tweak.
UniqueKeyLower(bundle_id, tweak) ==
    [bundle |-> bundle_id, tweak |-> [i \in 1..Len(tweak) |-> Lower(tweak[i])]]

\* A variant of UniqueKey that leaves the tweak out.
UniqueKeyNoTweak(bundle_id, tweak) == [bundle |-> bundle_id, tweak |-> <<>>]

\* unique_app_key: f"{bundle_id}:{tweak}" when there is a tweak, else bundle_id
\* (lines 1683-1688 and 1777-1782).
UniqueKey(bundle_id, tweak) == [bundle |-> bundle_id, tweak |-> tweak]

\* The key Pass 1 files an observation under.
ObservationKey(o) == UniqueKey(o.bundle, o.tweak)

\* The key Pass 2 gives a published entry (lines 1765-1782).
ExistingKey(app) == UniqueKey(app.bundleIdentifier, TweakInName(app.name))

\* The fields of an apps.json entry that the run reads or that tell entries apart.
AppEntry(name, bundle_id, version, date, url) ==
    [name |-> name, bundleIdentifier |-> bundle_id, version |-> version,
     versionDate |-> date, downloadURL |-> url]

NoObservation == [bundle |-> "", tweak |-> <<>>, version |-> <<>>, timestamp |-> 0]
NoApp == AppEntry(<<>>, "", <<>>, 0, <<>>)

\* The values of apps_by_bundle: a candidate of Pass 1 (lines 1715-1725, 1745-1754)
\* or an entry carried over by Pass 2 (lines 1789-1794, 1799-1804).
NewData(key, o, old_filename) ==
    [key |-> key, kind |-> "new", obs |-> o, version |-> o.version,
     old_filename |-> old_filename, existing |-> NoApp]

ExistingData(key, app) ==
    [key |-> key, kind |-> "existing", obs |-> NoObservation, version |-> app.version,
     old_filename |-> <<>>, existing |-> app]

KeyIndex(map, key) ==
    IF \E i \in 1..Len(map) : map[i].key = key
    THEN CHOOSE i \in 1..Len(map) : map[i].key = key
    ELSE 0

\* apps_by_bundle[key] = data: a present key keeps its place, a new one goes last.
MapPut(map, key, data) ==
    IF KeyIndex(map, key) = 0 THEN Append(map, data)
    ELSE [map EXCEPT ![KeyIndex(map, key)] = data]

SeqToSet(s) == {s[i] : i \in 1..Len(s)}


-----------------------------------------------------------------------------
(* upload_to_release and the App Store lookup *)

\* upload_to_release(file_path, old_filename=...): the results it can return and
\* the assets it can leave.  It fails before touching the release (lines 740-761),
\* or asks for the deletion of the asset of the same name and of the asset named
\* old_filename, each of which the release may or may not carry out (lines
\* 767-787), and then uploads, which succeeds or fails (lines 789-816).
upload_to_release(assets, filename, old_filename) ==
    LET targets == ({filename} \cup SeqToSet(old_filename)) \cap assets
    IN  {[ok |-> FALSE, assets |-> assets]}
          \cup {[ok |-> TRUE, assets |-> (assets \ D) \cup {filename}] : D \in SUBSET targets}
          \cup {[ok |-> FALSE, assets |-> assets \ D] : D \in SUBSET targets}

\* 'com.unknown' in current_bundle_id (line 1873)
IsFallbackBundle(bundle_id) == bundle_id = "com.unknown.app"

\* What the App Store can answer for a bundle id: nothing, or the official bundle id.
LookupAnswers(bundle_id) == {<<>>, <<"com.x.app">>}

\* Lines 1873-1883: the lookup is made for a fallback bundle id or for a cached
\* key; search_app_store answers from the cache when it can (lines 115-119) and
\* caches what it finds, also a miss (lines 142, 177, 187, 196).  The result is the
\* pair of the official bundle id (<<>> when none) and the cache afterwards.
SearchResults(cache, bundle_id) ==
    IF bundle_id \in DOMAIN cache
    THEN {[official |-> cache[bundle_id], cache |-> cache]}
    ELSE IF IsFallbackBundle(bundle_id)
    THEN {[official |-> a, cache |-> [b \in DOMAIN cache \cup {bundle_id} |->
                                         IF b = bundle_id THEN a ELSE cache[b]]]
             : a \in LookupAnswers(bundle_id)}
    ELSE {[official |-> <<>>, cache |-> cache]}

\* A variant of FinalBundleId that keeps the bundle id the key was built from.
FinalBundleIdOfKey(official, bundle_id) == bundle_id

\* final_bundle_id = official_bundle_id if official_bundle_id else info['bundleIdentifier']
\* (line 1919)
FinalBundleId(official, bundle_id) == IF Len(official) > 0 THEN official[1] ELSE bundle_id

\* The app_entry of lines 1966-1985 for a candidate, built at time `date`.
NewEntry(data, official, date) ==
    AppEntry(FinalName(AppName, data.obs.tweak),
             FinalBundleId(official, data.obs.bundle),
             data.obs.version, date, DownloadURL(FileName(data.obs)))

-----------------------------------------------------------------------------
(* update_repo_json: the two passes, the build loop and the write *)

\* A variant of Pass1Replaces with the arguments of compare_versions exchanged.
Pass1ReplacesSwapped(o, resident) ==
    compare_versions(resident.version, o.version,
                     <<resident.obs.timestamp>>, <<o.timestamp>>)

\* Line 1694: the candidate replaces the resident of its key.
Pass1Replaces(o, resident) ==
    compare_versions(o.version, resident.version,
                     <<o.timestamp>>, <<resident.obs.timestamp>>)

\* A variant of ExistingWins in which the published entry always wins.
ExistingAlwaysWins(app, resident) == TRUE

\* Line 1787: the published entry replaces the resident of its key.
ExistingWins(app, resident) == compare_versions(app.version, resident.version, <<>>, <<>>)

RECURSIVE MergeExisting(_, _)
\* Lines 1764-1804, over the loaded apps in order.
MergeExisting(map, apps) ==
    IF Len(apps) = 0 THEN map
    ELSE LET app == Head(apps)
             key == ExistingKey(app)
             i   == KeyIndex(map, key)
             merged == IF i = 0 THEN Append(map, ExistingData(key, app))
                       ELSE IF ExistingWins(app, map[i])
                            THEN [map EXCEPT ![i] = ExistingData(key, app)]
                            ELSE map
         IN  MergeExisting(merged, Tail(apps))

\* A variant of VerifyExisting that keeps every existing entry.
VerifyAlways(app, assets) == TRUE

\* Lines 1834-1845: the entry's file is in the storage listing.
VerifyExisting(app, assets) ==
    Len(app.downloadURL) > 0 /\ FilenameFromURL(app.downloadURL) \in assets

RunLocalsReset ==
    /\ ipa_files' = {}
    /\ todo' = {}
    /\ apps_by_bundle' = <<>>
    /\ existing_apps' = <<>>
    /\ current_release_assets' = {}
    /\ build_idx' = 0
    /\ final_apps' = <<>>

RepoInit ==
    /\ downloads = {}
    /\ storage = {}
    /\ apps_json = <<>>
    /\ appstore_cache = <<>>
    /\ pc = "idle"
    /\ ipa_files = {}
    /\ todo = {}
    /\ apps_by_bundle = <<>>
    /\ existing_apps = <<>>
    /\ current_release_assets = {}
    /\ build_idx = 0
    /\ final_apps = <<>>
    /\ now = 0
    /\ n_obs = 0
    /\ n_drift = 0

\* scrape_channel_or_topic: a file that is not in the release (line 887) and not
\* in the download directory (line 961) is downloaded.
Download ==
    /\ pc = "idle"
    /\ n_obs < MaxObs
    /\ \E o \in Observations :
          /\ o \notin downloads
          /\ FileName(o) \notin storage
          /\ downloads' = downloads \cup {o}
    /\ n_obs' = n_obs + 1
    /\ UNCHANGED <<storage, apps_json, appstore_cache, pc, ipa_files, todo, apps_by_bundle,
                   existing_apps, current_release_assets, build_idx, final_apps, now, n_drift>>
    /\ UNCHANGED notRepoVars

\* A run in a fresh working directory: os.makedirs(DOWNLOAD_DIR) finds none and
\* makes an empty one (line 1097).
FreshDownloadDir ==
    /\ pc = "idle"
    /\ downloads # {}
    /\ downloads' = {}
    /\ UNCHANGED <<storage, apps_json, appstore_cache, pc, ipa_files, todo, apps_by_bundle,
                   existing_apps, current_release_assets, build_idx, final_apps, now,
                   n_obs, n_drift>>
    /\ UNCHANGED notRepoVars

\* delete_release_asset (clean_duplicates.py): an asset leaves the release
\* between two runs of update_repo_json.
AssetRemoved ==
    /\ pc = "idle"
    /\ n_drift < MaxDrift
    /\ \E f \in storage : storage' = storage \ {f}
    /\ n_drift' = n_drift + 1
    /\ UNCHANGED <<downloads, apps_json, appstore_cache, pc, ipa_files, todo, apps_by_bundle,
                   existing_apps, current_release_assets, build_idx, final_apps, now, n_obs>>
    /\ UNCHANGED notRepoVars

\* Lines 1412-1415: ensure_release_exists fails and the run returns at once.
AbortRun ==
    /\ pc = "idle"
    /\ now < MaxRuns
    /\ now' = now + 1
    /\ UNCHANGED <<downloads, storage, apps_json, appstore_cache, pc, ipa_files, todo,
                   apps_by_bundle, existing_apps, current_release_assets, build_idx,
                   final_apps, n_obs, n_drift>>
    /\ UNCHANGED notRepoVars

\* Lines 1417-1421: the run starts with an empty map and the listing of DOWNLOAD_DIR.
StartRun ==
    /\ pc = "idle"
    /\ now < MaxRuns
    /\ now' = now + 1
    /\ ipa_files' = downloads
    /\ todo' = downloads
    /\ apps_by_bundle' = <<>>
    /\ pc' = IF downloads = {} THEN "merge" ELSE "scan"
    /\ UNCHANGED <<downloads, storage, apps_json, appstore_cache, existing_apps,
                   current_release_assets, build_idx, final_apps, n_obs, n_drift>>
    /\ UNCHANGED notRepoVars

\* Lines 1680-1754, for the next file of the listing (os.listdir gives any order).
ScanFile ==
    /\ pc = "scan"
    /\ \E o \in todo :
          LET key == ObservationKey(o)
              i   == KeyIndex(apps_by_bundle, key)
          IN  /\ todo' = todo \ {o}
              /\ pc' = IF todo \ {o} = {} THEN "merge" ELSE "scan"
              /\ IF i = 0
                 THEN /\ apps_by_bundle' = Append(apps_by_bundle, NewData(key, o, <<>>))
                      /\ downloads' = downloads
                 ELSE IF Pass1Replaces(o, apps_by_bundle[i])
                 THEN /\ apps_by_bundle' =
                            [apps_by_bundle EXCEPT
                               ![i] = NewData(key, o, <<FileName(apps_by_bundle[i].obs)>>)]
                      /\ downloads' = downloads \ {apps_by_bundle[i].obs}
                 ELSE /\ apps_by_bundle' = apps_by_bundle
                      /\ downloads' = downloads
    /\ UNCHANGED <<storage, apps_json, appstore_cache, ipa_files, existing_apps,
                   current_release_assets, build_idx, final_apps, now, n_obs, n_drift>>
    /\ UNCHANGED notRepoVars

\* Lines 1756-1825: Pass 2 over the loaded apps.json, then the storage listing,
\* which is the empty set when get_release_assets fails (lines 623-669).
Merge ==
    /\ pc = "merge"
    /\ existing_apps' = apps_json
    /\ apps_by_bundle' = MergeExisting(apps_by_bundle, apps_json)
    /\ \E listed \in BOOLEAN :
          current_release_assets' = IF listed THEN storage ELSE {}
    /\ build_idx' = 1
    /\ final_apps' = <<>>
    /\ pc' = "build"
    /\ UNCHANGED <<downloads, storage, apps_json, appstore_cache, ipa_files, todo, now,
                   n_obs, n_drift>>
    /\ UNCHANGED notRepoVars

\* Lines 1827-1847: an entry carried over is kept when its file is listed.
BuildExisting ==
    /\ pc = "build"
    /\ build_idx <= Len(apps_by_bundle)
    /\ apps_by_bundle[build_idx].kind = "existing"
    /\ final_apps' = IF VerifyExisting(apps_by_bundle[build_idx].existing, current_release_assets)
                     THEN Append(final_apps, apps_by_bundle[build_idx].existing)
                     ELSE final_apps
    /\ build_idx' = build_idx + 1
    /\ UNCHANGED <<downloads, storage, apps_json, appstore_cache, pc, ipa_files, todo,
                   apps_by_bundle, existing_apps, current_release_assets, now, n_obs, n_drift>>
    /\ UNCHANGED notRepoVars

\* Lines 1848-1990: a candidate is uploaded and, when the upload succeeded,
\* looked up and added.
BuildNew ==
    /\ pc = "build"
    /\ build_idx <= Len(apps_by_bundle)
    /\ apps_by_bundle[build_idx].kind = "new"
    /\ LET data == apps_by_bundle[build_idx]
       IN  \E up \in upload_to_release(storage, FileName(data.obs), data.old_filename) :
              /\ storage' = up.assets
              /\ IF up.ok
                 THEN \E found \in SearchResults(appstore_cache, data.obs.bundle) :
                         /\ appstore_cache' = found.cache
                         /\ final_apps' = Append(final_apps, NewEntry(data, found.official, now))
                 ELSE /\ appstore_cache' = appstore_cache
                      /\ final_apps' = final_apps
    /\ build_idx' = build_idx + 1
    /\ UNCHANGED <<downloads, apps_json, pc, ipa_files, todo, apps_by_bundle, existing_apps,
                   current_release_assets, now, n_obs, n_drift>>
    /\ UNCHANGED notRepoVars

\* Lines 1996-2005: the whole list is written once the loop is over.
WriteJson ==
    /\ pc = "build"
    /\ build_idx > Len(apps_by_bundle)
    /\ apps_json' = final_apps
    /\ pc' = "done"
    /\ UNCHANGED <<downloads, storage, appstore_cache, ipa_files, todo, apps_by_bundle,
                   existing_apps, current_release_assets, build_idx, final_apps, now,
                   n_obs, n_drift>>
    /\ UNCHANGED notRepoVars

\* Lines 2007-2014: the caches are saved and the function returns.
Return ==
    /\ pc = "done"
    /\ pc' = "idle"
    /\ RunLocalsReset
    /\ UNCHANGED <<downloads, storage, apps_json, appstore_cache, now, n_obs, n_drift>>
    /\ UNCHANGED notRepoVars

Next ==
    \/ Download
    \/ FreshDownloadDir
    \/ AssetRemoved
    \/ AbortRun
    \/ StartRun
    \/ ScanFile
    \/ Merge
    \/ BuildExisting
    \/ BuildNew
    \/ WriteJson
    \/ Return

CmpIdle ==
    /\ cv_v1 = <<>> /\ cv_v2 = <<>> /\ cv_t1 = <<>> /\ cv_t2 = <<>>
    /\ cv_out = <<>> /\ cv_raised = <<>>

-----------------------------------------------------------------------------
(* clean_duplicates.py: the release-asset step *)

MaxGroups == 2
MaxDelete == 2

\* Asset names of the release, in listing order: a tweak between underscores
\* (no word boundary around it), two letter cases of one tweak, another tweak.
AssetSeq ==
    << <<"App", "_", "Theta", "_", "v2", ".ipa">>,
       <<"App", " ", "Theta", " ", "v1", ".ipa">>,
       <<"App", " ", "theta", " ", "v2", ".ipa">>,
       <<"App", " ", "BHInsta", " ", "v1", ".ipa">> >>

AssetNames == SeqToSet(AssetSeq)

\* A \w character ends or starts the atom: every atom but the blank and the extension.
IsWordAtom(a) == a \notin {" ", ".ipa"}

\* re.search(r'\b' + re.escape(tweak) + r'\b', filename, re.IGNORECASE)
WordMatch(tweak, filename) ==
    \E i \in 1..Len(filename) :
        /\ Lower(filename[i]) = Lower(tweak)
        /\ i > 1 => ~IsWordAtom(filename[i - 1])
        /\ i < Len(filename) => ~IsWordAtom(filename[i + 1])

\* The first tweak of the list found in the file name, <<>> (None) when there
\* is none or the list is empty.
extract_tweak_from_filename(filename, tweaks) ==
    LET hits == {i \in 1..Len(tweaks) : WordMatch(tweaks[i], filename)}
    IN  IF hits = {} THEN <<>>
        ELSE <<tweaks[CHOOSE i \in hits : \A j \in hits : i <= j]>>

\* keep_tweak.lower() if keep_tweak else None
Normalized(tweak) == LowerAll(tweak)

\* The validation passes every group.
NoValidation(group, tweaks) == TRUE

\* all_tweaks_match: every file of the delete list has the keep file's tweak.
all_tweaks_match(group, tweaks) ==
    \A f \in group.delete :
        Normalized(extract_tweak_from_filename(group.keep, tweaks))
            = Normalized(extract_tweak_from_filename(f, tweaks))

\* A duplicate group as the model proposes it.
ProposedGroups ==
    {[keep |-> k, delete |-> d] :
        k \in AssetNames,
        d \in {x \in SUBSET AssetNames : Cardinality(x) >= 1 /\ Cardinality(x) <= MaxDelete}}

IndexOf(name) == CHOOSE i \in 1..Len(AssetSeq) : AssetSeq[i] = name

RECURSIVE DeleteCode(_, _)
DeleteCode(d, i) ==
    IF i = 0 THEN 0
    ELSE (IF AssetSeq[i] \in d THEN 2 ^ (i - 1) ELSE 0) + DeleteCode(d, i - 1)

\* One order on the proposed groups: by keep file, then by delete list.
GroupBefore(g, h) ==
    \/ IndexOf(g.keep) < IndexOf(h.keep)
    \/ /\ g.keep = h.keep
       /\ DeleteCode(g.delete, Len(AssetSeq)) < DeleteCode(h.delete, Len(AssetSeq))

RECURSIVE GroupLists(_)
\* The lists of at most n different groups.  What is returned and what is deleted
\* does not depend on the order of the groups, so each list is taken in one order.
GroupLists(n) ==
    IF n = 0 THEN {<<>>}
    ELSE LET S == GroupLists(n - 1)
             L == {x \in S : Len(x) = n - 1}
         IN  S \cup {Append(p[1], p[2]) :
                        p \in {q \in L \X ProposedGroups :
                                  Len(q[1]) = 0 \/ GroupBefore(q[1][Len(q[1])], q[2])}}

\* What the call to the model gives: no usable answer (no key, a network error,
\* an answer that cannot be parsed), or a list of groups.
AIAnswers ==
    {[ok |-> FALSE, groups |-> <<>>]}
        \cup {[ok |-> TRUE, groups |-> l] : l \in GroupLists(MaxGroups)}

\* The list check_all_release_assets_with_ai returns for an answer.
check_all_release_assets_with_ai(answer, tweaks) ==
    IF ~answer.ok THEN <<>>
    ELSE IF Len(tweaks) > 0 /\ Len(answer.groups) > 0
         THEN SelectSeq(answer.groups, LAMBDA g : all_tweaks_match(g, tweaks))
         ELSE answer.groups

NoAnswer == [ok |-> FALSE, groups |-> <<>>]

CleanIdle ==
    /\ release_assets = {}
    /\ known_tweaks = <<>>
    /\ ai_response = NoAnswer
    /\ duplicate_groups = <<>>
    /\ deleted_assets = {}
    /\ cpc = "idle"

\* clean_duplicates at the release-asset step: two or more .ipa assets, the
\* tweaks list loaded (empty when tweaks_list.json could not be read).
CleanInit ==
    /\ release_assets \in {x \in SUBSET AssetNames : Cardinality(x) >= Cardinality(AssetNames) - 1}
    /\ known_tweaks \in {KnownTweaks, <<>>}
    /\ ai_response = NoAnswer
    /\ duplicate_groups = <<>>
    /\ deleted_assets = {}
    /\ cpc = "scan"

\* duplicate_groups = check_all_release_assets_with_ai(asset_filenames, known_tweaks)
CheckAssets ==
    /\ cpc = "scan"
    /\ Cardinality(release_assets) >= 2
    /\ \E answer \in AIAnswers :
          /\ ai_response' = answer
          /\ duplicate_groups' = check_all_release_assets_with_ai(answer, known_tweaks)
    /\ cpc' = "groups"
    /\ UNCHANGED <<release_assets, known_tweaks, deleted_assets>>
    /\ UNCHANGED notCleanVars

\* The files of the returned groups' delete lists that are assets of the release.
files_to_delete ==
    {f \in release_assets :
        \E i \in 1..Len(duplicate_groups) : f \in duplicate_groups[i].delete}

\* Every file to delete is handed to delete_release_asset, which may fail.
DeleteOlderAssets ==
    /\ cpc = "groups"
    /\ \E done \in SUBSET files_to_delete :
          /\ release_assets' = release_assets \ done
          /\ deleted_assets' = done
    /\ cpc' = "finished"
    /\ UNCHANGED <<known_tweaks, ai_response, duplicate_groups>>
    /\ UNCHANGED notCleanVars

CleanNext == CheckAssets \/ DeleteOlderAssets

-----------------------------------------------------------------------------
(* scrape_channel_or_topic (scraper.py 844-1018) *)

MAX_DOWNLOADS_PER_CHANNEL == 3
MAX_CONCURRENT_DOWNLOADS == 2

\* The documents a message can carry, and the version the patterns of lines
\* 917-926 find in the name.
ScanFiles == {"App v405.ipa", "Other.ipa", "notes.txt"}

IsIpa(filename) == filename # "notes.txt"

version_from_file(filename) == IF filename = "App v405.ipa" THEN <<V_405>> ELSE <<>>

\* A message: its document's name and whether it has a text.
ScanMessages == [filename : ScanFiles, text : BOOLEAN]

\* extract_metadata_with_ai: None, or the fields the scan reads.
NoMeta == <<>>

AIMetadata ==
    {NoMeta} \cup
    {<<[bundle_id |-> b, version |-> v, tweak_name |-> <<>>]>> :
        b \in {<<>>, <<"com.x.app">>}, v \in {<<>>, <<V_404>>}}

\* Lines 896-910 when the message has no text: every field is None.
NoFields == [bundle_id |-> <<>>, version |-> <<>>, tweak_name |-> <<>>]

\* Lines 932-936
check_key(meta) ==
    IF meta.tweak_name # <<>> THEN <<meta.bundle_id[1], ":", meta.tweak_name[1]>>
    ELSE <<meta.bundle_id[1]>>

Or(a, b) == IF a # <<>> THEN a ELSE b

\* Lines 929-957: the message is skipped because the catalog has the key at a
\* version the message's version is not newer than.
NotNewerThanCatalog(meta, filename) ==
    LET version_to_check == Or(meta.version, version_from_file(filename))
    IN  /\ meta.bundle_id # <<>>
        /\ version_to_check # <<>>
        /\ \E e \in existing_apps_dict :
              /\ e.key = check_key(meta)
              /\ ~compare_versions(version_to_check[1], e.version, <<>>, <<>>)

ExistingDicts == {{}, {[key |-> <<"com.x.app">>, version |-> V_405]}}

ScanIdle ==
    /\ sc_messages = <<>> /\ sc_disk = {} /\ sc_release_assets = {}
    /\ existing_apps_dict = {} /\ messages_scanned = 0 /\ ipa_count = 0
    /\ download_queue = <<>> /\ sc_started = 0 /\ downloaded_files = <<>>
    /\ sc_batch = {} /\ sc_in_flight = {} /\ sc_ok = {} /\ sc_failed = {}
    /\ sc_no_meta = {} /\ sc_pc = "returned"

ScanInit ==
    /\ sc_messages \in UNION {[1..n -> ScanMessages] : n \in 1..MaxMsgs}
    /\ sc_disk \in SUBSET {"Other.ipa"}
    /\ sc_release_assets \in SUBSET {"Other.ipa"}
    /\ existing_apps_dict \in ExistingDicts
    /\ messages_scanned = 0
    /\ ipa_count = 0
    /\ download_queue = <<>>
    /\ sc_started = 0
    /\ sc_batch = {}
    /\ sc_in_flight = {}
    /\ sc_ok = {}
    /\ sc_failed = {}
    /\ downloaded_files = <<>>
    /\ sc_no_meta = {}
    /\ sc_pc = "scan"

\* Lines 962-973: queue the file, or record it when it is already on disk.
QueueOrRecord(filename) ==
    IF filename \notin sc_disk
    THEN /\ download_queue' = Append(download_queue, filename)
         /\ UNCHANGED downloaded_files
    ELSE /\ downloaded_files' = Append(downloaded_files, filename)
         /\ UNCHANGED download_queue

\* Lines 859-973: one iteration of the first pass.  An exception raised in it
\* is caught by the except of line 1017, after which the function returns.
ScanMessage ==
    /\ sc_pc = "scan"
    /\ messages_scanned < Len(sc_messages)
    /\ messages_scanned' = messages_scanned + 1
    /\ LET message == sc_messages[messages_scanned + 1]
           filename == message.filename
       IN  IF ~IsIpa(filename)
           THEN UNCHANGED <<ipa_count, download_queue, downloaded_files, sc_no_meta, sc_pc>>
           ELSE /\ ipa_count' = ipa_count + 1
                /\ IF ipa_count' > MAX_DOWNLOADS_PER_CHANNEL
                   THEN /\ sc_pc' = "download"
                        /\ UNCHANGED <<download_queue, downloaded_files, sc_no_meta>>
                   ELSE IF filename \in sc_release_assets
                   THEN UNCHANGED <<download_queue, downloaded_files, sc_no_meta, sc_pc>>
                   ELSE IF existing_apps_dict = {}
                   THEN /\ QueueOrRecord(filename)
                        /\ UNCHANGED <<sc_no_meta, sc_pc>>
                   ELSE IF ~message.text
                   THEN /\ IF NotNewerThanCatalog(NoFields, filename)
                           THEN UNCHANGED <<download_queue, downloaded_files>>
                           ELSE QueueOrRecord(filename)
                        /\ UNCHANGED <<sc_no_meta, sc_pc>>
                   ELSE \E ai_meta \in AIMetadata :
                           IF ai_meta = NoMeta
                           THEN \* ai_meta['app_name'] raises TypeError (line 897)
                                /\ sc_no_meta' = sc_no_meta \cup {messages_scanned + 1}
                                /\ sc_pc' = "returned"
                                /\ UNCHANGED <<download_queue, downloaded_files>>
                           ELSE /\ IF NotNewerThanCatalog(ai_meta[1], filename)
                                   THEN UNCHANGED <<download_queue, downloaded_files>>
                                   ELSE QueueOrRecord(filename)
                                /\ UNCHANGED <<sc_no_meta, sc_pc>>
    /\ UNCHANGED <<sc_messages, sc_disk, sc_release_assets, existing_apps_dict, sc_started,
                   sc_batch, sc_in_flight, sc_ok, sc_failed>>
    /\ UNCHANGED notScanVars

\* Line 859: the iteration is exhausted.
EndScan ==
    /\ sc_pc = "scan"
    /\ messages_scanned = Len(sc_messages)
    /\ sc_pc' = "download"
    /\ UNCHANGED <<sc_messages, sc_disk, sc_release_assets, existing_apps_dict,
                   messages_scanned, ipa_count, download_queue, sc_started,
                   sc_batch, sc_in_flight, sc_ok, sc_failed,
                   downloaded_files, sc_no_meta>>
    /\ UNCHANGED notScanVars

\* Files of a sequence at the given positions, in order.
RECURSIVE Picked(_, _, _)
Picked(queue, from, ok) ==
    IF from > Len(queue) THEN <<>>
    ELSE (IF from \in ok THEN <<queue[from]>> ELSE <<>>) \o Picked(queue, from + 1, ok)

\* A variant of BatchEnd that takes the whole rest of the queue as one batch.
WholeQueue(started, n) == n

\* Line 981: batch = download_queue[i:i + MAX_CONCURRENT_DOWNLOADS]; the
\* position of the last entry of the batch that follows `started` entries.
BatchEnd(started, n) ==
    IF started + MAX_CONCURRENT_DOWNLOADS < n THEN started + MAX_CONCURRENT_DOWNLOADS ELSE n

\* Lines 980-998: the tasks of the next batch are created and gathered; all of
\* them are in flight.
StartBatch ==
    /\ sc_pc = "download"
    /\ sc_batch = {}
    /\ sc_started < Len(download_queue)
    /\ LET last == BatchEnd(sc_started, Len(download_queue))
       IN  /\ sc_batch' = (sc_started + 1)..last
           /\ sc_in_flight' = (sc_started + 1)..last
           /\ sc_started' = last
    /\ sc_ok' = {}
    /\ sc_failed' = {}
    /\ UNCHANGED <<sc_messages, sc_disk, sc_release_assets, existing_apps_dict,
                   messages_scanned, ipa_count, download_queue, downloaded_files,
                   sc_no_meta, sc_pc>>
    /\ UNCHANGED notScanVars

\* download_single_file (lines 826-842) for one task of the batch: the file is
\* written and the result is True, or the download fails, the partial file is
\* removed and the result is False, or an exception that gather returns.
DownloadCompletes ==
    /\ sc_pc = "download"
    /\ \E i \in sc_in_flight :
          /\ sc_in_flight' = sc_in_flight \ {i}
          /\ \E result \in {"True", "False", "Exception"} :
                IF result = "True"
                THEN /\ sc_ok' = sc_ok \cup {i}
                     /\ sc_disk' = sc_disk \cup {download_queue[i]}
                     /\ UNCHANGED sc_failed
                ELSE /\ sc_failed' = sc_failed \cup {i}
                     /\ UNCHANGED <<sc_ok, sc_disk>>
    /\ UNCHANGED <<sc_messages, sc_release_assets, existing_apps_dict, messages_scanned,
                   ipa_count, download_queue, sc_started, sc_batch, downloaded_files,
                   sc_no_meta, sc_pc>>
    /\ UNCHANGED notScanVars

\* Lines 998-1012: gather returns once every task of the batch has finished;
\* the files whose result is True are recorded in queue order.
EndBatch ==
    /\ sc_pc = "download"
    /\ sc_batch # {}
    /\ sc_in_flight = {}
    /\ downloaded_files' = downloaded_files \o
          Picked(SubSeq(download_queue, 1, sc_started),
                 CHOOSE i \in sc_batch : \A j \in sc_batch : i <= j, sc_ok)
    /\ sc_batch' = {}
    /\ sc_ok' = {}
    /\ sc_failed' = {}
    /\ UNCHANGED <<sc_messages, sc_disk, sc_release_assets, existing_apps_dict,
                   messages_scanned, ipa_count, download_queue, sc_started, sc_in_flight,
                   sc_no_meta, sc_pc>>
    /\ UNCHANGED notScanVars

\* Lines 1014-1015: every batch is done, the function returns.
FinishScan ==
    /\ sc_pc = "download"
    /\ sc_started = Len(download_queue)
    /\ sc_batch = {}
    /\ sc_pc' = "returned"
    /\ UNCHANGED <<sc_messages, sc_disk, sc_release_assets, existing_apps_dict,
                   messages_scanned, ipa_count, download_queue, sc_started,
                   sc_batch, sc_in_flight, sc_ok, sc_failed,
                   downloaded_files, sc_no_meta>>
    /\ UNCHANGED notScanVars

ScanNext ==
    ScanMessage \/ EndScan \/ StartBatch \/ DownloadCompletes \/ EndBatch \/ FinishScan

-----------------------------------------------------------------------------
(* clean_duplicates, the catalog step (clean_duplicates.py 785-983) *)

\* str.strip() on a sequence of atoms.
RECURSIVE Strip(_)
Strip(t) ==
    IF t = <<>> THEN <<>>
    ELSE IF Head(t) = " " THEN Strip(Tail(t))
    ELSE IF t[Len(t)] = " " THEN Strip(SubSeq(t, 1, Len(t) - 1))
    ELSE t

\* extract_base_name_and_tweak: re.search(r'^(.+?)\s*\(([^)]+)\)$', app_name); the
\* lazy group ends before the leftmost '(' that is not the first character and
\* is followed by no ')' before the closing one.  <<base_name, tweak_name>>,
\* the tweak being <<>> when there is no match.
extract_base_name_and_tweak(app_name) ==
    LET n == Len(app_name)
        opens == {i \in 2..n : /\ app_name[i] = "("
                               /\ i + 1 <= n - 1
                               /\ \A j \in (i + 1)..(n - 1) : app_name[j] # ")"}
    IN  IF n = 0 \/ app_name[n] # ")" \/ opens = {} THEN <<app_name, <<>>>>
        ELSE LET i == CHOOSE k \in opens : \A j \in opens : k <= j
             IN  <<Strip(SubSeq(app_name, 1, i - 1)), Strip(SubSeq(app_name, i + 1, n - 1))>>

\* Lines 849-854: the key of the group an app is put in.
group_key(app) ==
    LET parts == extract_base_name_and_tweak(app.name)
    IN  IF parts[2] # <<>> THEN <<parts[1], "|", LowerAll(parts[2])>>
        ELSE <<parts[1], "|", <<"NO_TWEAK">>>>

\* The file of a catalog entry.
CatalogFile(name, version) ==
    name \o <<" ", IF version = V_404 THEN "v404.0.0" ELSE "v405.1.0">> \o <<".ipa">>

CatalogEntry(name, version) ==
    AppEntry(name, "com.x.app", version, 0, DownloadURL(CatalogFile(name, version)))

\* The entry that update_repo_json publishes when it processes the file of a
\* published entry again at a later date (scraper.py 1966-1985): the same
\* fields and downloadURL, another versionDate.
Republished(app) == [app EXCEPT !.versionDate = 1]

\* The entries a loaded catalog is made of: the untweaked app at two versions
\* and republished, the app under a registered tweak written in two letter
\* cases, the app under an unregistered tweak at two versions.
CatalogPool ==
    { CatalogEntry(<<"App">>, V_404), CatalogEntry(<<"App">>, V_405),
      Republished(CatalogEntry(<<"App">>, V_404)),
      CatalogEntry(FinalName(<<"App">>, <<"Theta">>), V_404),
      CatalogEntry(FinalName(<<"App">>, <<"theta">>), V_404),
      CatalogEntry(FinalName(<<"App">>, <<"Fluffy">>), V_404),
      CatalogEntry(FinalName(<<"App">>, <<"Fluffy">>), V_405) }

\* The entries of a list that are in the group of app (lines 832-856).
GroupOf(apps, app) ==
    {i \in 1..Len(apps) : /\ apps[i].bundleIdentifier = app.bundleIdentifier
                          /\ group_key(apps[i]) = group_key(app)}

\* The catalogs: lists of entries, an entry possibly more than once, with at
\* most two entries in a group.
Catalogs ==
    {l \in UNION {[1..n -> CatalogPool] : n \in 1..MaxApps} :
        \A i \in 1..Len(l) : Cardinality(GroupOf(l, l[i])) <= 2}

\* Lines 879-895 for a group of two: sorted(..., key=cmp_to_key(1 if
\* compare_versions(a, b) else -1), reverse=True) puts the first of the two
\* first exactly when compare_versions says it is newer than the second; the
\* other one is older_apps.
older_app(first, second) ==
    IF cleaner_compare_versions(first.version, second.version) THEN second ELSE first

\* Lines 829-936: apps_to_remove, the older app of every group of two among the
\* apps of one bundle identifier.
apps_to_remove(apps) ==
    {older_app(apps[i], apps[j]) :
        <<i, j>> \in {p \in (1..Len(apps)) \X (1..Len(apps)) :
                        /\ p[1] < p[2]
                        /\ apps[p[1]].bundleIdentifier # ""
                        /\ apps[p[1]].bundleIdentifier = apps[p[2]].bundleIdentifier
                        /\ group_key(apps[p[1]]) = group_key(apps[p[2]])}}

\* Lines 925-928: download_url.split('/')[-1], unquoted.
EntryFileOf(app) == FilenameFromURL(app.downloadURL)

\* Line 961: cleaned_apps
cleaned_apps(apps, removed) == SelectSeq(apps, LAMBDA app : app \notin removed)

CatIdle ==
    /\ cat_apps = <<>> /\ cat_json = <<>> /\ cat_known_tweaks = <<>>
    /\ cat_release_assets = {} /\ cat_deleted = {} /\ cat_pc = "cleaned"

\* Lines 800-816: the tweaks list, apps.json and the release's assets are loaded
\* (get_release_assets returns nothing when the listing fails).
CatInit ==
    /\ cat_apps \in Catalogs
    /\ cat_json = cat_apps
    /\ cat_known_tweaks \in {KnownTweaks, <<>>}
    /\ cat_release_assets \in {{}, {EntryFileOf(cat_apps[i]) : i \in 1..Len(cat_apps)}}
    /\ cat_deleted = {}
    /\ cat_pc = "load"

\* Lines 818-983: the groups are formed, the older app of each group is taken
\* out of apps.json and its asset, when the release lists it, is deleted
\* (delete_release_asset can fail).
CleanCatalog ==
    /\ cat_pc = "load"
    /\ LET removed == apps_to_remove(cat_apps)
           ipas_to_delete == {EntryFileOf(app) : app \in removed} \cap cat_release_assets
       IN  /\ cat_json' = IF removed # {} THEN cleaned_apps(cat_apps, removed) ELSE cat_json
           /\ \E done \in SUBSET ipas_to_delete : cat_deleted' = done
    /\ cat_pc' = "cleaned"
    /\ UNCHANGED <<cat_apps, cat_known_tweaks, cat_release_assets>>
    /\ UNCHANGED notCatVars

-----------------------------------------------------------------------------
(* convert_to_altstore.py *)

\* The trailing \s* of the pattern of line 32.
RECURSIVE RStrip(_)
RStrip(t) ==
    IF t # <<>> /\ t[Len(t)] = " " THEN RStrip(SubSeq(t, 1, Len(t) - 1)) ELSE t

\* extract_tweak_from_name: the parenthesised end of the name when a known
\* tweak equals it case-insensitively, as the list spells it (the first such
\* tweak of the list); <<>> otherwise.  Only the tweak is used by the callers.
extract_tweak_from_name(app_name, tweaks) ==
    LET potential_tweak == extract_base_name_and_tweak(RStrip(app_name))[2]
        hits == {i \in 1..Len(tweaks) :
                    /\ Len(potential_tweak) = 1
                    /\ Lower(tweaks[i]) = Lower(potential_tweak[1])}
    IN  IF hits = {} THEN <<>>
        ELSE <<tweaks[CHOOSE i \in hits : \A j \in hits : i <= j]>>

\* create_unique_bundle_id: f"{original_bundle_id}.{tweak_suffix}", or the
\* original.  The bundle identifiers of the inputs contain no known tweak, so
\* two results are the same string exactly when they are the same sequence.
create_unique_bundle_id(original_bundle_id, tweak_name) ==
    IF tweak_name = <<>> THEN <<original_bundle_id>>
    ELSE <<original_bundle_id, ".", Lower(tweak_name[1])>>

\* convert_app_to_altstore_format: the name and the bundle identifier of the
\* converted app.
convert_app_to_altstore_format(app, tweaks) ==
    [name |-> app.name,
     bundleIdentifier |->
        create_unique_bundle_id(app.bundleIdentifier,
                                extract_tweak_from_name(app.name, tweaks))]

ConvIdle == apps_data = <<>> /\ tweaks_data = <<>> /\ altstore_apps = <<>>

\* main(): apps.json and tweaks_list.json are loaded.
ConvInit ==
    /\ apps_data \in Catalogs
    /\ tweaks_data \in {KnownTweaks, <<>>}
    /\ altstore_apps = <<>>

\* Lines 141-143: one iteration of the loop over the input's apps.
ConvertApp ==
    /\ Len(altstore_apps) < Len(apps_data)
    /\ altstore_apps' =
          Append(altstore_apps,
                 convert_app_to_altstore_format(apps_data[Len(altstore_apps) + 1], tweaks_data))
    /\ UNCHANGED <<apps_data, tweaks_data>>
    /\ UNCHANGED notConvVars

-----------------------------------------------------------------------------
(* extract_metadata_with_ai (scraper.py 392-484) *)

OPENROUTER_MODEL == "openai/gpt-4o-mini"

\* OPENROUTER_FALLBACK_MODEL as the environment can set it: empty, the primary
\* model again, another model.
FallbackModels == {"", OPENROUTER_MODEL, "openai/gpt-4o"}

\* _extract_with_model: None, or a dictionary of which the caller reads
\* app_name and bundle_id.
ModelResults ==
    {NoMeta} \cup
    {<<[app_name |-> a, bundle_id |-> b]>> :
        a \in {<<>>, <<"App">>}, b \in {<<>>, <<"com.x.app">>}}

\* A variant of needs_fallback that asks for the fallback after every primary call.
NeedsFallbackAlways(result) == TRUE

\* Lines 454-460
needs_fallback(result) ==
    IF result = NoMeta THEN TRUE
    ELSE result[1].app_name = <<>> /\ result[1].bundle_id = <<>>

ExtIdle ==
    /\ ex_fallback_model = "" /\ ex_cache = NoMeta /\ ex_pc = "idle"
    /\ ex_calls = <<>> /\ ex_primary = NoMeta /\ fallback_metadata = NoMeta
    /\ metadata = NoMeta /\ ex_n = 0

ExtInit ==
    /\ ex_fallback_model \in FallbackModels
    /\ ex_cache = NoMeta
    /\ ex_pc = "idle"
    /\ ex_calls = <<>>
    /\ ex_primary = NoMeta
    /\ fallback_metadata = NoMeta
    /\ metadata = NoMeta
    /\ ex_n = 0

\* Lines 425-432: an extraction starts; the cached result is returned when
\* there is one for the message.
StartExtraction ==
    /\ ex_pc \in {"idle", "returned"}
    /\ ex_n < MaxExtractions
    /\ ex_n' = ex_n + 1
    /\ ex_calls' = <<>>
    /\ ex_primary' = NoMeta
    /\ fallback_metadata' = NoMeta
    /\ IF ex_cache # NoMeta
       THEN metadata' = ex_cache /\ ex_pc' = "returned"
       ELSE metadata' = NoMeta /\ ex_pc' = "primary"
    /\ UNCHANGED <<ex_fallback_model, ex_cache>>
    /\ UNCHANGED notExtVars

\* Line 450: the primary model is called.
CallPrimary ==
    /\ ex_pc = "primary"
    /\ \E result \in ModelResults :
          /\ metadata' = result
          /\ ex_primary' = result
    /\ ex_calls' = Append(ex_calls, OPENROUTER_MODEL)
    /\ ex_pc' = "check"
    /\ UNCHANGED <<ex_fallback_model, ex_cache, fallback_metadata, ex_n>>
    /\ UNCHANGED notExtVars

\* Lines 463-471: the fallback model is called and its result, when there is
\* one, becomes the metadata.
CallFallback ==
    /\ ex_pc = "check"
    /\ needs_fallback(metadata)
    /\ ex_fallback_model # "" /\ ex_fallback_model # OPENROUTER_MODEL
    /\ \E result \in ModelResults :
          /\ fallback_metadata' = result
          /\ metadata' = IF result # NoMeta THEN result ELSE metadata
    /\ ex_calls' = Append(ex_calls, ex_fallback_model)
    /\ ex_pc' = "log"
    /\ UNCHANGED <<ex_fallback_model, ex_cache, ex_primary, ex_n>>
    /\ UNCHANGED notExtVars

\* Line 463, the condition being false.
SkipFallback ==
    /\ ex_pc = "check"
    /\ ~( /\ needs_fallback(metadata)
          /\ ex_fallback_model # "" /\ ex_fallback_model # OPENROUTER_MODEL )
    /\ ex_pc' = "log"
    /\ UNCHANGED <<ex_fallback_model, ex_cache, ex_calls, ex_primary,
                   fallback_metadata, metadata, ex_n>>
    /\ UNCHANGED notExtVars

\* Lines 473-484: a result is cached, and returned.
FinishExtraction ==
    /\ ex_pc = "log"
    /\ ex_cache' = IF metadata # NoMeta THEN metadata ELSE ex_cache
    /\ ex_pc' = "returned"
    /\ UNCHANGED <<ex_fallback_model, ex_calls, ex_primary, fallback_metadata, metadata, ex_n>>
    /\ UNCHANGED notExtVars

ExtNext == StartExtraction \/ CallPrimary \/ CallFallback \/ SkipFallback \/ FinishExtraction

-----------------------------------------------------------------------------
(* update_repo_json, reconciliation of one downloaded file (scraper.py
   1423-1669).  Here a Python string is a TLA+ string and both None and the
   empty string are "": the code tests these values for truth only. *)

\* Line 1579: 'binnichtaktiv' in source_channel.lower(), on the channels used.
SourceChannels == {"@BinNichtAktivsIPAs", "@other"}

IsDesignated(source_channel) == source_channel = "@BinNichtAktivsIPAs"

\* extract_ipa_info (lines 534-590): None when the package has no Info.plist
\* or cannot be read (<<>>), else the fields of the plist; the name and the
\* identifier default to '', the version to '1.0'.
PackageInfos ==
    {<<>>} \cup {<<i>> : i \in [name : {"", "Pkg App"},
                                 bundleIdentifier : {"", "com.pkg.app"},
                                 version : {"1.0", "3.1"}]}

\* Lines 1443-1457: the fields of the inference result that reconciliation
\* uses, None and 'null' being "".
AIFields ==
    [app_name : {"", "My App", "My App (Pro)"}, version : {"", "2.0"},
     bundle_id : {"", "com.ai.app"}]

\* parse_filename (lines 1491-1536) on "App v2.5.ipa" and on "App.ipa": the
\* name is "App", the version "2.5" or None.
FilenameVersions == {"", "2.5"}

app_name_from_file == "App"

\* clean_app_name (lines 1538-1565) on the names used: a closing
\* modification suffix such as " (Pro)" is removed; the names have no
\* markdown, no emoji and no repeated first word.
clean_app_name(name) == IF name = "My App (Pro)" THEN "My App" ELSE name

\* cleaned_name.lower().replace(" ", "") (lines 1625, 1639) on the names used.
Slug(name) ==
    CASE name = "My App"  -> "myapp"
      [] name = "App"     -> "app"
      [] name = "Pkg App" -> "pkgapp"
      [] OTHER            -> name

\* search_app_store(cleaned_name, None)[2] as a table from the name searched
\* to the identifier found, "" when nothing is found.
AppStores == [{"App", "My App"} -> {"", "com.store.app"}]

\* Line 1641, 1662: the versions taken for placeholders.
PlaceholderVersions == {"1.0", "0.1.0", "1"}

\* a or b on strings.
OrStr(a, b) == IF a # "" THEN a ELSE b

\* Lines 1579-1586.
best_version(source_channel, message_version, file_version) ==
    IF IsDesignated(source_channel)
    THEN OrStr(file_version, message_version)
    ELSE OrStr(message_version, file_version)

\* Lines 1599-1665: info after reconciliation.  The identifiers used are not
\* the two that the name corrections of lines 1471-1476 and 1673-1678 test.
reconcile(info, ai, file_version, source_channel, store) ==
    LET bv           == best_version(source_channel, ai.version, file_version)
        best_name    == OrStr(ai.app_name, app_name_from_file)
        cleaned_name == clean_app_name(best_name)
        temp_bundle_id == IF ai.bundle_id # "" THEN ai.bundle_id ELSE store[cleaned_name]
        fallback_id  == IF temp_bundle_id # "" THEN temp_bundle_id
                        ELSE "com.unknown." \o Slug(cleaned_name)
    IN  IF info = <<>>
        THEN [bundleIdentifier |-> fallback_id, name |-> cleaned_name,
              version |-> OrStr(bv, "1.0")]
        ELSE IF info[1].name = "" \/ info[1].bundleIdentifier = ""
        THEN [bundleIdentifier |-> OrStr(info[1].bundleIdentifier, fallback_id),
              name    |-> OrStr(info[1].name, cleaned_name),
              version |-> IF bv # "" /\ info[1].version \in PlaceholderVersions \cup {""}
                          THEN bv ELSE info[1].version]
        ELSE [bundleIdentifier |-> info[1].bundleIdentifier,
              name    |-> IF ai.app_name # "" THEN clean_app_name(ai.app_name)
                          ELSE clean_app_name(info[1].name),
              version |-> IF ai.version # "" THEN ai.version
                          ELSE IF file_version # "" /\ info[1].version \in PlaceholderVersions
                          THEN file_version
                          ELSE info[1].version]

RcIdle ==
    /\ rc_info = <<>> /\ rc_ai = [app_name |-> "", version |-> "", bundle_id |-> ""]
    /\ rc_version_from_file = "" /\ rc_source_channel = "@other"
    /\ rc_store = [n \in {"App", "My App"} |-> ""] /\ rc_out = <<>> /\ rc_pc = "idle"

RcInit ==
    /\ rc_info \in PackageInfos
    /\ rc_ai \in AIFields
    /\ rc_version_from_file \in FilenameVersions
    /\ rc_source_channel \in SourceChannels
    /\ rc_store \in AppStores
    /\ rc_out = <<>>
    /\ rc_pc = "file"

\* One iteration of the loop of line 1423 up to line 1669.
Reconcile ==
    /\ rc_pc = "file"
    /\ rc_out' = <<reconcile(rc_info, rc_ai, rc_version_from_file, rc_source_channel, rc_store)>>
    /\ rc_pc' = "reconciled"
    /\ UNCHANGED <<rc_info, rc_ai, rc_version_from_file, rc_source_channel, rc_store>>
    /\ UNCHANGED notRcVars

RcNext == Reconcile

-----------------------------------------------------------------------------

Init == RepoInit /\ CmpIdle /\ CleanIdle /\ ScanIdle /\ CatIdle /\ ConvIdle /\ ExtIdle /\ RcIdle

Spec == Init /\ [][Next]_vars

InitCmp == CmpInit /\ RepoInit /\ CleanIdle /\ ScanIdle /\ CatIdle /\ ConvIdle /\ ExtIdle /\ RcIdle

SpecCmp == InitCmp /\ [][Compare]_vars

InitClean == CleanInit /\ RepoInit /\ CmpIdle /\ ScanIdle /\ CatIdle /\ ConvIdle /\ ExtIdle /\ RcIdle

SpecClean == InitClean /\ [][CleanNext]_vars

InitScan == ScanInit /\ RepoInit /\ CmpIdle /\ CleanIdle /\ CatIdle /\ ConvIdle /\ ExtIdle /\ RcIdle

SpecScan == InitScan /\ [][ScanNext]_vars

InitCatalog == CatInit /\ RepoInit /\ CmpIdle /\ CleanIdle /\ ScanIdle /\ ConvIdle /\ ExtIdle /\ RcIdle

SpecCatalog == InitCatalog /\ [][CleanCatalog]_vars

InitConvert == ConvInit /\ RepoInit /\ CmpIdle /\ CleanIdle /\ ScanIdle /\ CatIdle /\ ExtIdle /\ RcIdle

SpecConvert == InitConvert /\ [][ConvertApp]_vars

InitExtract == ExtInit /\ RepoInit /\ CmpIdle /\ CleanIdle /\ ScanIdle /\ CatIdle /\ ConvIdle /\ RcIdle

SpecExtract == InitExtract /\ [][ExtNext]_vars

InitReconcile == RcInit /\ RepoInit /\ CmpIdle /\ CleanIdle /\ ScanIdle /\ CatIdle /\ ConvIdle /\ ExtIdle

SpecReconcile == InitReconcile /\ [][RcNext]_vars


-----------------------------------------------------------------------------
(* Properties of update_repo_json *)

EntryFile(app) == FilenameFromURL(app.downloadURL)

\* compare_versions as Pass 1 calls it on two observations.
Newer(a, b) == compare_versions(a.version, b.version, <<a.timestamp>>, <<b.timestamp>>)

\* Pairs of observations of the run's listing that Pass 1 files under one key,
\* the first newer than the second.
RivalPairs ==
    {p \in ipa_files \X ipa_files :
        /\ p[1] # p[2]
        /\ ObservationKey(p[1]) = ObservationKey(p[2])
        /\ Newer(p[1], p[2])}

BuiltThisRun(apps) == {i \in 1..Len(apps) : apps[i].versionDate = now}

\* C1: when a run has written the catalog, for any two observations of the run
\* filed under one key, in whatever order they were processed, the catalog
\* holds at most one entry made from either of them, and none made from the one
\* compare_versions ranks below the other.
C1_OnlyTheNewerPublished ==
    pc = "done" =>
        \A p \in RivalPairs :
            LET made == {i \in 1..Len(apps_json) :
                            EntryFile(apps_json[i]) \in {FileName(p[1]), FileName(p[2])}}
            IN  /\ Cardinality(made) <= 1
                /\ \A i \in made : EntryFile(apps_json[i]) = FileName(p[1])

\* C2: no two entries of apps.json share an identityKey (bundleIdentifier plus
\* the tweak in the display name).
C2_UniqueIdentityKeys ==
    \A i, j \in 1..Len(apps_json) :
        i # j => ExistingKey(apps_json[i]) # ExistingKey(apps_json[j])

\* C3: when a run has written the catalog, the binary of a previously published
\* entry that an entry built by the run replaced under the same key is gone from
\* storage, or its deletion was asked for with the upload (old_filename).
C3_SupersededBinaryDeleted ==
    pc = "done" =>
        \A k \in 1..Len(existing_apps) :
            \A i \in BuiltThisRun(apps_json) :
                (/\ ExistingKey(apps_json[i]) = ExistingKey(existing_apps[k])
                 /\ EntryFile(apps_json[i]) # EntryFile(existing_apps[k]))
                => \/ EntryFile(existing_apps[k]) \notin storage
                   \/ \E m \in 1..Len(apps_by_bundle) :
                         /\ apps_by_bundle[m].kind = "new"
                         /\ FileName(apps_by_bundle[m].obs) = EntryFile(apps_json[i])
                         /\ apps_by_bundle[m].old_filename = <<EntryFile(existing_apps[k])>>

RegisteredOrNone(tweak) ==
    Len(tweak) > 0 => (Len(tweak) = 1 /\ is_tweak_in_list(tweak[1], KnownTweaks))

\* C4: no key of the map and no display name of an entry built by
\* update_repo_json carries a tweak that is not in the registry.
C4_OnlyRegisteredTweaks ==
    /\ \A i \in 1..Len(apps_by_bundle) : RegisteredOrNone(apps_by_bundle[i].key.tweak)
    /\ \A i \in 1..Len(final_apps) : RegisteredOrNone(TweakInName(final_apps[i].name))
    /\ \A i \in 1..Len(apps_json) : RegisteredOrNone(TweakInName(apps_json[i].name))

\* C5: the key carries the case-normalized tweak, so two observations of one
\* bundle id whose tweaks are equal up to letter case are never two candidates
\* of the map.
C5_CaseNormalizedKeys ==
    \A i, j \in 1..Len(apps_by_bundle) :
        (/\ i # j
         /\ apps_by_bundle[i].kind = "new"
         /\ apps_by_bundle[j].kind = "new"
         /\ apps_by_bundle[i].obs.bundle = apps_by_bundle[j].obs.bundle)
        => LowerAll(apps_by_bundle[i].obs.tweak) # LowerAll(apps_by_bundle[j].obs.tweak)

\* C7: a run with an empty download directory, over a storage that holds the
\* binary of every published entry and a listing call that returned exactly the
\* storage's files, writes the apps array it loaded, in the same order.
C7_RepublishIdempotent ==
    (/\ pc = "done"
     /\ ipa_files = {}
     /\ current_release_assets = storage
     /\ \A k \in 1..Len(existing_apps) : EntryFile(existing_apps[k]) \in storage)
    => apps_json = existing_apps

\* C8: when a run has written apps.json, the file of every entry is an asset of
\* the release.
C8_EntriesHaveAssets ==
    pc = "done" => \A i \in 1..Len(apps_json) : EntryFile(apps_json[i]) \in storage

\* C9: when a run has written the catalog, no loaded entry whose file was absent
\* from the storage listing is in it, and every entry Pass 2 carried over whose
\* file was listed is in it.
C9_MissingBinaryDropped ==
    pc = "done" =>
        /\ \A k \in 1..Len(existing_apps) :
              EntryFile(existing_apps[k]) \notin current_release_assets
              => existing_apps[k] \notin SeqToSet(apps_json)
        /\ \A m \in 1..Len(apps_by_bundle) :
              (/\ apps_by_bundle[m].kind = "existing"
               /\ EntryFile(apps_by_bundle[m].existing) \in current_release_assets)
              => apps_by_bundle[m].existing \in SeqToSet(apps_json)

\* C9 witness: a run wrote a catalog that leaves out a loaded entry whose file
\* was missing from a non-empty listing and keeps another loaded entry.
C9_Witness ==
    /\ pc = "done"
    /\ current_release_assets # {}
    /\ \E k \in 1..Len(existing_apps) :
          /\ EntryFile(existing_apps[k]) \notin current_release_assets
          /\ existing_apps[k] \notin SeqToSet(apps_json)
    /\ \E k \in 1..Len(existing_apps) : existing_apps[k] \in SeqToSet(apps_json)

-----------------------------------------------------------------------------
(* Properties of the two comparators *)

\* A numeric version: one or more all-digit components separated by dots.
IsNumericVersion(v) ==
    /\ Len(v) > 0
    /\ \A i \in 1..Len(SplitOn(v, {"."})) : IsDigit(SplitOn(v, {"."})[i])

Components(v) == MapInt(SplitOn(v, {"."}))

\* a is component-wise >= b, missing components counting as 0, and greater in
\* at least one component.
Dominates(a, b) ==
    LET n  == Max(Len(Components(a)), Len(Components(b)))
        pa == PadTo(Components(a), n)
        pb == PadTo(Components(b), n)
    IN  /\ \A i \in 1..n : pa[i] >= pb[i]
        /\ \E i \in 1..n : pa[i] > pb[i]

Compared == cv_out # <<>>

NoTimestamps == cv_t1 = <<>> /\ cv_t2 = <<>>

\* C10: called without timestamps, both comparators answer false on two equal
\* version strings; on numeric versions where the first is component-wise >= the
\* second and greater in one component both answer true, and false with the
\* arguments swapped; both answer true on "2.21" against "2.2".
C10_IrreflexiveAndDominance ==
    (Compared /\ NoTimestamps) =>
        /\ cv_v1 = cv_v2 => cv_out = <<FALSE, FALSE>>
        /\ (IsNumericVersion(cv_v1) /\ IsNumericVersion(cv_v2) /\ Dominates(cv_v1, cv_v2))
              => cv_out = <<TRUE, TRUE>>
        /\ (IsNumericVersion(cv_v1) /\ IsNumericVersion(cv_v2) /\ Dominates(cv_v2, cv_v1))
              => cv_out = <<FALSE, FALSE>>
        /\ (cv_v1 = V_2_21 /\ cv_v2 = V_2_2) => cv_out = <<TRUE, TRUE>>

\* C10 witness: both comparators were called on "2.21" against "2.2" without
\* timestamps and answered true.
C10_Witness ==
    /\ Compared /\ NoTimestamps
    /\ cv_v1 = V_2_21 /\ cv_v2 = V_2_2
    /\ Dominates(cv_v1, cv_v2)
    /\ cv_out = <<TRUE, TRUE>>

-----------------------------------------------------------------------------
(* Properties of the release-asset step *)

\* The keep file of the group implies one tweak and a file of its delete list
\* another (or one of them none).
Mismatched(group) ==
    \E f \in group.delete :
        Normalized(extract_tweak_from_filename(group.keep, known_tweaks))
            # Normalized(extract_tweak_from_filename(f, known_tweaks))

-----------------------------------------------------------------------------
(* The reference comparison *)

\* The all-digit tokens of s between '.' and '-', in order, as integers.
RefTuple(s) ==
    LET kept == SelectSeq(SplitOn(s, {".", "-"}), IsDigit)
    IN  [i \in 1..Len(kept) |-> IntOf(kept[i])]

RefPadded(t, n) == [i \in 1..n |-> IF i <= Len(t) THEN t[i] ELSE 0]

\* a > b for two tuples of one length: greater at the first index where they differ.
RefTupleGreater(a, b) ==
    \E i \in 1..Len(a) : a[i] > b[i] /\ \A j \in 1..(i - 1) : a[j] = b[j]

RefTimestampLater(tA, tB) == tA # <<>> /\ tB # <<>> /\ tA[1] > tB[1]

ReferenceNewer(a, b, tA, tB) ==
    LET n  == Max(Len(RefTuple(a)), Len(RefTuple(b)))
        pa == RefPadded(RefTuple(a), n)
        pb == RefPadded(RefTuple(b), n)
    IN  IF pa # pb THEN RefTupleGreater(pa, pb) ELSE RefTimestampLater(tA, tB)

HasWord(v) == \E i \in 1..Len(v) : v[i] # " "

\* The characters of v from the first that is not a blank up to the next blank.
FirstWord(v) ==
    LET first == CHOOSE i \in 1..Len(v) : v[i] # " " /\ \A j \in 1..(i - 1) : v[j] = " "
        last  == CHOOSE k \in first..Len(v) :
                     /\ \A j \in first..k : v[j] # " "
                     /\ (k = Len(v) \/ v[k + 1] = " ")
    IN  SubSeq(v, first, last)

\* C11 as stated: the scraper's compare_versions equals the reference
\* comparison on the digit tokens of the two version strings as given.
C11_EqualsReference ==
    (Compared /\ IsStr(cv_v1) /\ IsStr(cv_v2)) => cv_out[1] = ReferenceNewer(cv_v1, cv_v2, cv_t1, cv_t2)

\* C11 amended: when both versions have a non-blank character the scraper's
\* compare_versions equals the reference comparison on the first
\* whitespace-separated word of each; when one of them has none, it is true
\* exactly when the strings are equal and both timestamps are given with the
\* first later, or the strings differ and the first is the greater string.
C11_EqualsReferenceOnFirstWord ==
    (Compared /\ IsStr(cv_v1) /\ IsStr(cv_v2)) =>
        IF HasWord(cv_v1) /\ HasWord(cv_v2)
        THEN cv_out[1] = ReferenceNewer(FirstWord(cv_v1), FirstWord(cv_v2), cv_t1, cv_t2)
        ELSE cv_out[1] = IF cv_v1 = cv_v2 THEN RefTimestampLater(cv_t1, cv_t2)
                         ELSE StrGreater(cv_v1, cv_v2)

\* C11 witness: "2.0-beta" against "2.0-rc" and "1.0" against "1.0.0" are decided
\* by the timestamps alone; here the first, called with the later timestamp
\* first, answered true.
C11_Witness ==
    /\ Compared
    /\ cv_v1 = V_2_0_beta /\ cv_v2 = V_2_0_rc
    /\ cv_t1 = <<2>> /\ cv_t2 = <<1>>
    /\ cv_out[1] = TRUE
    /\ compare_versions(V_1_0, V_1_0_0, <<>>, <<>>) = FALSE
    /\ compare_versions(V_1_0_0, V_1_0, <<1>>, <<2>>) = FALSE

-----------------------------------------------------------------------------
(* Properties of scrape_channel_or_topic *)

\* The first pass went through the channel: every message was taken, or the
\* pass stopped on the limit of .ipa files.
FirstPassComplete ==
    messages_scanned = Len(sc_messages) \/ ipa_count > MAX_DOWNLOADS_PER_CHANNEL

\* C13: when the inference returned no metadata for a message of the scan,
\* the function has still, when it returns, taken every remaining message of
\* the channel and started every queued download.
C13_ScanSurvivesInferenceFailure ==
    (sc_pc = "returned" /\ sc_no_meta # {}) =>
        /\ FirstPassComplete
        /\ sc_started = Len(download_queue)

-----------------------------------------------------------------------------
(* The catalog file during a run of update_repo_json *)

\* The step ends a run: the function returns, at line 1415 or at its end.
RunEndsInStep ==
    \/ pc = "idle" /\ pc' = "idle" /\ now' # now
    \/ pc # "idle" /\ pc' = "idle"

\* The step is the write of lines 2003-2005, made when the build loop is over.
WritesBuiltList ==
    /\ pc = "build" /\ pc' = "done"
    /\ build_idx > Len(apps_by_bundle)
    /\ apps_json' = final_apps

\* C14: every run of update_repo_json ends having written apps.json, and the
\* file changes only in the one write that follows the build loop, so that it
\* holds the previous catalog at every earlier point of the run.
C14_RunEndsByWritingOnce ==
    [][ /\ RunEndsInStep => pc = "done"
        /\ apps_json' # apps_json => WritesBuiltList ]_vars

-----------------------------------------------------------------------------
(* Properties of the catalog step of clean_duplicates *)

\* The parenthetical part of an entry's name, <<>> when it has none.
Parenthetical(app) == extract_base_name_and_tweak(app.name)[2]

InTweaksList(app) ==
    /\ Len(Parenthetical(app)) = 1
    /\ is_tweak_in_list(Parenthetical(app)[1], cat_known_tweaks)

\* C15: once clean_duplicates has cleaned the catalog with a tweaks list,
\* apps.json has no entry whose parenthetical name part is not in the list,
\* and every loaded entry whose parenthetical part is in the list is still
\* there, itself or in the version of its group that was kept.
C15_UnknownParentheticalRemoved ==
    (cat_pc = "cleaned" /\ cat_known_tweaks # <<>>) =>
        /\ \A i \in 1..Len(cat_json) :
              Parenthetical(cat_json[i]) # <<>> => InTweaksList(cat_json[i])
        /\ \A i \in 1..Len(cat_apps) :
              InTweaksList(cat_apps[i]) =>
                  \E j \in 1..Len(cat_json) : group_key(cat_json[j]) = group_key(cat_apps[i])

-----------------------------------------------------------------------------
(* Properties of convert_to_altstore *)

Converted == apps_data # <<>> /\ Len(altstore_apps) = Len(apps_data)

\* The parenthesised tweak of a name is in tweaks_list.json, any letter case.
ListedTweak(app) ==
    /\ Len(Parenthetical(app)) = 1
    /\ is_tweak_in_list(Parenthetical(app)[1], tweaks_data)

\* The (bundleIdentifier, parenthesised tweak) keys of the input are pairwise distinct.
DistinctInputKeys ==
    \A i, j \in 1..Len(apps_data) :
        i # j => <<apps_data[i].bundleIdentifier, Parenthetical(apps_data[i])>>
                 # <<apps_data[j].bundleIdentifier, Parenthetical(apps_data[j])>>

\* C16: the converted apps are the input's apps in order, names unchanged; an
\* app with a listed tweak has the original identifier followed by "." and the
\* lower-cased tweak, any other app the original one; and when the input's
\* keys are pairwise distinct, so are the output's bundle identifiers.
C16_UniqueBundleIdentifiers ==
    (Converted /\ tweaks_data = KnownTweaks) =>
        /\ \A i \in 1..Len(apps_data) :
              /\ altstore_apps[i].name = apps_data[i].name
              /\ altstore_apps[i].bundleIdentifier =
                    IF ListedTweak(apps_data[i])
                    THEN <<apps_data[i].bundleIdentifier, ".",
                           Lower(Parenthetical(apps_data[i])[1])>>
                    ELSE <<apps_data[i].bundleIdentifier>>
        /\ DistinctInputKeys =>
              \A i, j \in 1..Len(altstore_apps) :
                  i # j => altstore_apps[i].bundleIdentifier # altstore_apps[j].bundleIdentifier

-----------------------------------------------------------------------------
(* Pass 2 and the storage listing *)

\* Neither version is newer than the other.
TieOnVersion(v1, v2) ==
    /\ ~compare_versions(v1, v2, <<>>, <<>>)
    /\ ~compare_versions(v2, v1, <<>>, <<>>)

\* C17: after Pass 2, a key that a published entry and a candidate share at
\* versions that compare equal is held by the published entry, so that the
\* candidate is not uploaded.
C17_ExistingWinsTies ==
    pc = "build" =>
        \A i \in 1..Len(existing_apps), j \in 1..Len(apps_by_bundle) :
            ( /\ apps_by_bundle[j].key = ExistingKey(existing_apps[i])
              /\ TieOnVersion(existing_apps[i].version, apps_by_bundle[j].version) )
            => apps_by_bundle[j].kind = "existing"

\* The step is the build loop passing over an entry carried over by Pass 2
\* without adding it to the list.
DropsExisting ==
    /\ pc = "build" /\ build_idx <= Len(apps_by_bundle)
    /\ apps_by_bundle[build_idx].kind = "existing"
    /\ build_idx' = build_idx + 1
    /\ final_apps' = final_apps

\* C18: an existing entry is dropped only when the listing shows its binary
\* absent; when get_release_assets returned the empty set while the release
\* does hold the binary (the listing failed), the entry is carried forward.
C18_ListingFailureKeepsExisting ==
    [][ (DropsExisting /\ current_release_assets = {})
            => EntryFile(apps_by_bundle[build_idx].existing) \notin storage ]_vars

-----------------------------------------------------------------------------
(* Versions without numeric tokens *)

\* Python's str comparison with the timestamp tie-break on equal strings.
PlainStringNewer(a, b, tA, tB) ==
    IF a = b THEN RefTimestampLater(tA, tB) ELSE StrGreater(a, b)

BothStrings == IsStr(cv_v1) /\ IsStr(cv_v2)

\* C19 as stated: two version strings without numeric tokens are compared as
\* plain strings, a > b, the timestamps deciding only between equal strings.
C19_GarbageComparedAsStrings ==
    (Compared /\ BothStrings /\ RefTuple(cv_v1) = <<>> /\ RefTuple(cv_v2) = <<>>)
        => cv_out[1] = PlainStringNewer(cv_v1, cv_v2, cv_t1, cv_t2)

\* C19: two version strings whose first word has no numeric token compare
\* equal, so that the result is the timestamp tie-break alone and "abd" against
\* "abc" is false both ways without timestamps; the plain string comparison
\* is used only when one of the strings has no word at all.
C19_GarbageComparesEqual ==
    (Compared /\ BothStrings) =>
        /\ ( /\ HasWord(cv_v1) /\ HasWord(cv_v2)
             /\ RefTuple(FirstWord(cv_v1)) = <<>> /\ RefTuple(FirstWord(cv_v2)) = <<>> )
           => cv_out[1] = RefTimestampLater(cv_t1, cv_t2)
        /\ (~HasWord(cv_v1) \/ ~HasWord(cv_v2))
           => cv_out[1] = PlainStringNewer(cv_v1, cv_v2, cv_t1, cv_t2)

\* C19 witness: "abd" was compared with "abc" without timestamps and is not newer,
\* and neither is "abc" against "abd".
C19_Witness ==
    /\ Compared
    /\ cv_v1 = V_abd /\ cv_v2 = V_abc
    /\ cv_t1 = <<>> /\ cv_t2 = <<>>
    /\ cv_out[1] = FALSE
    /\ ~compare_versions(V_abc, V_abd, <<>>, <<>>)

-----------------------------------------------------------------------------
(* Pass 1 *)

\* The candidate a step of Pass 1 takes from the listing.
Pass1Candidate == CHOOSE o \in todo : o \notin todo'

\* C20: a step of Pass 1 inserts a candidate whose key is not in the map;
\* lets a newer candidate (or one of equal version and later timestamp) take
\* the resident's place, with the resident's file removed from the download
\* directory and its name kept as old_filename; and otherwise leaves the
\* resident alone and removes the candidate's file from the download directory.
C20_Pass1InsertReplaceDiscard ==
    [][ (pc = "scan" /\ todo' # todo) =>
          LET o   == Pass1Candidate
              key == ObservationKey(o)
              i   == KeyIndex(apps_by_bundle, key)
          IN  IF i = 0
              THEN /\ Len(apps_by_bundle') = Len(apps_by_bundle) + 1
                   /\ apps_by_bundle'[Len(apps_by_bundle')].obs = o
                   /\ downloads' = downloads
              ELSE IF compare_versions(o.version, apps_by_bundle[i].version,
                                       <<o.timestamp>>, <<apps_by_bundle[i].obs.timestamp>>)
              THEN /\ apps_by_bundle'[i].obs = o
                   /\ apps_by_bundle'[i].old_filename = <<FileName(apps_by_bundle[i].obs)>>
                   /\ apps_by_bundle[i].obs \notin downloads'
              ELSE /\ apps_by_bundle' = apps_by_bundle
                   /\ o \notin downloads' ]_vars

-----------------------------------------------------------------------------
(* Properties of extract_metadata_with_ai *)

\* The primary model gave nothing usable: no result, or neither field.
NoUsableResult(result) ==
    IF result = NoMeta THEN TRUE
    ELSE result[1].app_name = <<>> /\ result[1].bundle_id = <<>>

FallbackCalled == Len(ex_calls) >= 2

\* C21: in one extraction the fallback model is called at most once, only
\* after a primary call without usable result and only when another model is
\* configured; the value returned is the fallback's result when it has one,
\* the primary's when the fallback failed, and a primary result with either
\* field is returned without a fallback call.
C21_FallbackAtMostOnce ==
    /\ Len(ex_calls) <= 2
    /\ FallbackCalled =>
          /\ ex_calls[1] = OPENROUTER_MODEL
          /\ NoUsableResult(ex_primary)
          /\ ex_fallback_model \notin {"", OPENROUTER_MODEL}
          /\ ex_calls[2] = ex_fallback_model
    /\ (ex_pc = "returned" /\ Len(ex_calls) >= 1) =>
          /\ (FallbackCalled /\ fallback_metadata # NoMeta) => metadata = fallback_metadata
          /\ (FallbackCalled /\ fallback_metadata = NoMeta) => metadata = ex_primary
          /\ ~NoUsableResult(ex_primary) => (~FallbackCalled /\ metadata = ex_primary)

\* C21 witness: the primary model returned neither field, the fallback was
\* called and its result was returned.
C21_Witness ==
    /\ ex_pc = "returned"
    /\ ex_primary = <<[app_name |-> <<>>, bundle_id |-> <<>>]>>
    /\ FallbackCalled
    /\ fallback_metadata # NoMeta
    /\ metadata = fallback_metadata

\* The entries appended to downloaded_files by a step.
Recorded == SubSeq(downloaded_files', Len(downloaded_files) + 1, Len(downloaded_files'))

\* A step of the download pass of scrape_channel_or_topic respects the batches.
BatchStep ==
    sc_pc = "download" /\ sc_pc' = "download" =>
       \* a download starts only when no download of an earlier batch is in flight,
       \* and the started downloads are the next entries of the queue
       /\ sc_started' # sc_started =>
             /\ sc_in_flight = {}
             /\ sc_in_flight' = (sc_started + 1)..sc_started'
             /\ sc_started' - sc_started <= MAX_CONCURRENT_DOWNLOADS
       \* a failing download ends alone: the others of its batch stay in flight
       /\ sc_failed' # sc_failed /\ sc_failed' # {} =>
             /\ Cardinality(sc_failed' \ sc_failed) = 1
             /\ sc_in_flight' = sc_in_flight \ (sc_failed' \ sc_failed)
             /\ downloaded_files' = downloaded_files
       \* what is recorded is the successful downloads of the finished batch
       /\ downloaded_files' # downloaded_files =>
             /\ sc_in_flight = {}
             /\ Len(Recorded) = Cardinality(sc_ok)
             /\ \A k \in 1..Len(Recorded) :
                   \E i \in sc_ok : Recorded[k] = download_queue[i]
             /\ Len(downloaded_files') = Len(downloaded_files) + Len(Recorded)

\* C22: downloads run in consecutive batches of at most MAX_CONCURRENT_DOWNLOADS:
\* never more than that many are in flight, no download of the next batch
\* starts before every download of the current batch has completed, and a
\* failed download neither stops the others of its batch nor is recorded in
\* downloaded_files.
C22_BatchedDownloads ==
    /\ [](Cardinality(sc_in_flight) <= MAX_CONCURRENT_DOWNLOADS /\ sc_in_flight \subseteq sc_batch)
    /\ [][BatchStep]_vars

\* The second batch is in flight after a download of the first batch failed.
C22_Witness ==
    /\ sc_pc = "download"
    /\ sc_started > MAX_CONCURRENT_DOWNLOADS
    /\ sc_in_flight # {}
    /\ Len(downloaded_files) < MAX_CONCURRENT_DOWNLOADS

-----------------------------------------------------------------------------
(* Properties of the reconciliation *)

\* C23: the reconciled version follows the priority of the source: from the
\* designated source the version of the filename, when there is one; from any
\* other source the version of the message, else the version of the filename,
\* and the version of the package only when both are empty, whether or not
\* the package metadata was read completely.
C23_VersionPriority ==
    rc_pc = "reconciled" =>
       /\ IsDesignated(rc_source_channel) /\ rc_version_from_file # "" =>
             rc_out[1].version = rc_version_from_file
       /\ ~IsDesignated(rc_source_channel) /\ rc_ai.version # "" =>
             rc_out[1].version = rc_ai.version
       /\ ~IsDesignated(rc_source_channel) /\ rc_ai.version = "" /\ rc_version_from_file # "" =>
             rc_out[1].version = rc_version_from_file

\* The first non-empty of a sequence of strings, "" when there is none.
FirstNonEmpty(s) ==
    IF \E i \in 1..Len(s) : s[i] # ""
    THEN s[CHOOSE i \in 1..Len(s) : s[i] # "" /\ \A j \in 1..(i - 1) : s[j] = ""]
    ELSE ""

\* C24: the reconciled bundleIdentifier is the first non-empty of the bundle
\* id of the message, the App Store identifier found for the name of the
\* filename, the identifier of the package and com.unknown.<slug of the name>.
C24_BundlePriority ==
    rc_pc = "reconciled" =>
       rc_out[1].bundleIdentifier =
          FirstNonEmpty(<<rc_ai.bundle_id,
                          rc_store[app_name_from_file],
                          IF rc_info = <<>> THEN "" ELSE rc_info[1].bundleIdentifier,
                          "com.unknown." \o Slug(rc_out[1].name)>>)

-----------------------------------------------------------------------------
(* Pass 1 and Pass 2 on the key of a published entry *)

\* The build loop publishes the candidate at build_idx in this step.
PublishesCandidate ==
    IF pc = "build" /\ build_idx <= Len(apps_by_bundle)
    THEN /\ apps_by_bundle[build_idx].kind = "new"
         /\ Len(final_apps') = Len(final_apps) + 1
    ELSE FALSE

\* C25: an entry that Pass 1 filed under a key and that the run publishes gets
\* the same key from Pass 2 when the catalog is reloaded (its bundleIdentifier
\* and the tweak in the closing parenthesis of its name).
C25_PassesAgreeOnKey ==
    [][PublishesCandidate =>
          ExistingKey(final_apps'[Len(final_apps')]) = apps_by_bundle[build_idx].key]_vars

-----------------------------------------------------------------------------
(* Properties of the catalog step on groups and on release storage *)

\* C26: after the catalog step every group (same bundleIdentifier, base name
\* and case-insensitive tweak) that had two or more entries has exactly one
\* entry left, and no removed entry of the group is newer than it.
C26_OneNewestPerGroup ==
    cat_pc = "cleaned" =>
       \A i \in 1..Len(cat_apps) :
          Cardinality(GroupOf(cat_apps, cat_apps[i])) >= 2 =>
             /\ Cardinality(GroupOf(cat_json, cat_apps[i])) = 1
             /\ \A k \in GroupOf(cat_json, cat_apps[i]) :
                   \A j \in GroupOf(cat_apps, cat_apps[i]) :
                      ~cleaner_compare_versions(cat_apps[j].version, cat_json[k].version)

\* C27: the catalog step deletes from the release no asset that is the file
\* of an entry still in apps.json.
C27_LiveAssetsKept ==
    cat_pc = "cleaned" =>
       \A k \in 1..Len(cat_json) : EntryFileOf(cat_json[k]) \notin cat_deleted

-----------------------------------------------------------------------------
(* Keep files in the release-asset step *)

\* C28: when the release-asset step has finished, no file that a group which
\* passed the validation names as keep was deleted, and of every such group
\* at least one file is left in the release.
C28_KeepFilesStay ==
    cpc = "finished" /\ known_tweaks # <<>> =>
       \A i \in 1..Len(duplicate_groups) :
          /\ duplicate_groups[i].keep \notin deleted_assets
          /\ ({duplicate_groups[i].keep} \cup duplicate_groups[i].delete) \cap release_assets # {}

-----------------------------------------------------------------------------
(* Published apps across a run *)

\* C29: when a run has written the catalog, every key that had an entry in
\* the loaded catalog whose binary the release listed (so that storage held it
\* when the run started) still has an entry in the written catalog.
C29_PublishedAppNotLost ==
    pc = "done" =>
       \A k \in 1..Len(existing_apps) :
          EntryFile(existing_apps[k]) \in current_release_assets =>
             \E i \in 1..Len(apps_json) :
                ExistingKey(apps_json[i]) = ExistingKey(existing_apps[k])

-----------------------------------------------------------------------------
(* The two comparators against each other *)

\* C30: on every pair of version strings the cleaner's compare_versions
\* returns what the scraper's compare_versions returns when it is called
\* without timestamps.
C30_ComparatorsEquivalent ==
    (Compared /\ NoTimestamps /\ BothStrings) => cv_out[1] = cv_out[2]

=============================================================================
